---- MODULE Spec2Model ----
(***************************************************************************)
(* Prayer-event timeline engine of time.aishamasjid.uk:                    *)
(*   lib/prayer-data.ts          getCombinedPrayerTimes (timeline builder) *)
(*   lib/prayer-calculations.ts  getNextPrayerMs, getPreviousPrayerMs,     *)
(*                               isWithinPrayerHoldingPeriodMs, ...        *)
(*   hooks/use-simulated-time.ts the time source                           *)
(*   hooks/use-prayer-page-state.ts  the hook that sequences them and      *)
(*                               owns the "prayer now" expiry timer        *)
(*                                                                         *)
(* Instants are counted in units of UnitMs milliseconds (five minutes):    *)
(* every HH:MM of the data used here and every holding duration of the     *)
(* source is a whole number of units.  A date is a day index d >= 1, and   *)
(* the instant of HH:MM on date d is d * DayUnits + HHMM, so every instant *)
(* is positive, as an epoch timestamp is.                                  *)
(* The local time zone is taken to be UTC: getDateString (UTC date) and    *)
(* parseTimeToMs (local time) then agree on where a date begins.           *)
(***************************************************************************)
EXTENDS Integers, Sequences, FiniteSets, TLC

UnitMs == 5 * 60 * 1000
DayUnits == (24 * 60 * 60 * 1000) \div UnitMs
HHMM(h, m) == ((h * 60 + m) * 60 * 1000) \div UnitMs

\* Number of calendar dates that have data (dates 1..NumDays); date
\* NumDays + 1 and later are "unsupported".
NumDays == 2
\* Timer handles the runtime can hand out.
MaxTimers == 3

\* A time string that is undefined, and a timestamp that is null.
Absent == -1
Null == -1

PRAYER_ORDER == <<"fajr", "sunrise", "dhuhr", "jumuah1", "jumuah2", "asr", "maghrib", "isha">>
PrayerNames == {PRAYER_ORDER[i] : i \in 1..Len(PRAYER_ORDER)}

\* JavaScript truthiness of a number-or-null: 0 and null are falsy.
Truthy(x) == x # Null /\ x # 0

(***************************************************************************)
(* Raw per-date records (the yearly JSON data, after validation).          *)
(***************************************************************************)
NoAthan == [found |-> FALSE, fajr |-> Absent, sunrise |-> Absent, dhuhr |-> Absent,
            asr |-> Absent, maghrib |-> Absent, isha |-> Absent]
NoIqamah == [found |-> FALSE, fajr |-> Absent, dhuhr |-> Absent, asr |-> Absent,
             isha |-> Absent, jumuah1 |-> Absent, jumuah2 |-> Absent]

AthanEntry(f, s, d, a, m, i) ==
    [found |-> TRUE, fajr |-> f, sunrise |-> s, dhuhr |-> d, asr |-> a, maghrib |-> m, isha |-> i]
IqamahEntry(f, d, a, i, j1, j2) ==
    [found |-> TRUE, fajr |-> f, dhuhr |-> d, asr |-> a, isha |-> i, jumuah1 |-> j1, jumuah2 |-> j2]

\* The weekday and the Friday of the unit tests.
WeekdayAthan == AthanEntry(HHMM(6,30), HHMM(7,50), HHMM(12,30), HHMM(15,0), HHMM(17,0), HHMM(18,30))
WeekdayIqamah == IqamahEntry(HHMM(6,45), HHMM(13,0), HHMM(15,30), HHMM(19,0), Absent, Absent)
FridayIqamah == IqamahEntry(HHMM(6,45), HHMM(13,0), HHMM(15,30), HHMM(19,0), HHMM(13,0), HHMM(13,45))
\* A day on which prayers follow each other closely: sunrise starts inside
\* fajr's holding window, maghrib inside asr's.
TightAthan == AthanEntry(HHMM(6,30), HHMM(6,50), HHMM(12,30), HHMM(15,0), HHMM(15,30), HHMM(18,30))
TightIqamah == IqamahEntry(HHMM(6,45), HHMM(12,30), HHMM(15,25), HHMM(18,40), Absent, Absent)
\* A Friday record that carries jumuah2 but no jumuah1.
Jumuah2OnlyIqamah == IqamahEntry(HHMM(6,45), HHMM(13,0), HHMM(15,30), HHMM(19,0), Absent, HHMM(13,45))
\* A summer day: isha's congregation is so late that its holding window
\* runs past midnight.
LateAthan == AthanEntry(HHMM(3,0), HHMM(4,50), HHMM(13,5), HHMM(17,30), HHMM(21,20), HHMM(23,0))
LateIqamah == IqamahEntry(HHMM(3,30), HHMM(13,30), HHMM(18,0), HHMM(23,50), Absent, Absent)

RawDays == <<
    [athan |-> WeekdayAthan, iqamah |-> WeekdayIqamah],
    [athan |-> WeekdayAthan, iqamah |-> FridayIqamah],
    [athan |-> TightAthan,   iqamah |-> TightIqamah],
    [athan |-> WeekdayAthan, iqamah |-> Jumuah2OnlyIqamah],
    [athan |-> LateAthan,    iqamah |-> LateIqamah],
    [athan |-> WeekdayAthan, iqamah |-> NoIqamah] >>

\* The data files: date d of calendar c holds RawDays[c + d - 1] (cyclically);
\* a date after NumDays has no record.
RawOf(c, d) == RawDays[((c + d - 2) % Len(RawDays)) + 1]
findAthanByDate(c, d) == IF d \in 1..NumDays THEN RawOf(c, d).athan ELSE NoAthan
findIqamahByDate(c, d) == IF d \in 1..NumDays THEN RawOf(c, d).iqamah ELSE NoIqamah

(***************************************************************************)
(* lib/prayer-data.ts: getCombinedPrayerTimes                              *)
(***************************************************************************)
EmptyLegs == [p \in PrayerNames |-> [athan |-> Absent, iqamah |-> Absent]]

\* A loop that leaves dhuhr its iqamah on a Friday.
CombineLegsKeepingDhuhr(athanTimes, iqamahTimes, hasJumuah) ==
    [p \in PrayerNames |->
        [athan |-> IF p = "jumuah1" /\ hasJumuah THEN athanTimes.dhuhr
                   ELSE IF p = "jumuah2" THEN Absent
                   ELSE IF p # "jumuah1" THEN athanTimes[p]
                   ELSE Absent,
         iqamah |-> IF p = "maghrib" THEN athanTimes.maghrib
                    ELSE IF iqamahTimes.found /\ p \in DOMAIN iqamahTimes THEN iqamahTimes[p]
                    ELSE Absent]]

\* The loop over PRAYERS_WITH_IQAMAH; hasJumuah is iqamahTimes?.jumuah1 !== undefined.
CombineLegs(athanTimes, iqamahTimes, hasJumuah) ==
    [p \in PrayerNames |->
        [athan |-> IF p = "jumuah1" /\ hasJumuah THEN athanTimes.dhuhr
                   ELSE IF p = "jumuah2" THEN Absent
                   ELSE IF p # "jumuah1" THEN athanTimes[p]
                   ELSE Absent,
         iqamah |-> IF p = "dhuhr" /\ hasJumuah THEN Absent
                    ELSE IF p = "maghrib" THEN athanTimes.maghrib
                    ELSE IF iqamahTimes.found /\ p \in DOMAIN iqamahTimes THEN iqamahTimes[p]
                    ELSE Absent]]

CombineRecords(d, athanTimes, iqamahTimes) ==
    [date |-> d,
     legs |-> IF ~athanTimes.found THEN EmptyLegs
              ELSE CombineLegs(athanTimes, iqamahTimes,
                               iqamahTimes.found /\ iqamahTimes.jumuah1 # Absent)]

getCombinedPrayerTimes(c, d) ==
    CombineRecords(d, findAthanByDate(c, d), findIqamahByDate(c, d))

(***************************************************************************)
(* hooks/use-simulated-time.ts: date strings                               *)
(***************************************************************************)
getDateString(t) == t \div DayUnits
getTomorrowDateString(t) == (t \div DayUnits) + 1

(***************************************************************************)
(* hooks/use-prayer-page-state.ts: parsing the timeline to timestamps      *)
(***************************************************************************)
parseTimeToMs(dateStr, timeStr) ==
    IF timeStr = Absent THEN 0 ELSE dateStr * DayUnits + timeStr

\* The loop over the prayers, dhuhr skipped when jumuah1 is active, and the
\* tomorrowFajr entry.
ParseLegs(today, legs, jumuah1Active, tomorrowDateStr) ==
    [k \in {p \in PrayerNames : ~(p = "dhuhr" /\ jumuah1Active)} \cup {"tomorrowFajr"} |->
        IF k = "tomorrowFajr"
        THEN [athan |-> parseTimeToMs(tomorrowDateStr, legs["fajr"].athan), iqamah |-> Null]
        ELSE [athan |-> parseTimeToMs(today, IF legs[k].athan # Absent THEN legs[k].athan
                                             ELSE legs[k].iqamah),
              iqamah |-> IF legs[k].iqamah # Absent
                         THEN parseTimeToMs(today, legs[k].iqamah) ELSE Null]]

\* A parse that keeps dhuhr on a Friday.
parsePrayerTimesToMsKeepingDhuhr(prayerTimes, tomorrowDateStr) ==
    ParseLegs(prayerTimes.date, prayerTimes.legs, FALSE, tomorrowDateStr)

parsePrayerTimesToMs(prayerTimes, tomorrowDateStr) ==
    ParseLegs(prayerTimes.date, prayerTimes.legs,
              prayerTimes.legs["jumuah1"].iqamah # Absent, tomorrowDateStr)

(***************************************************************************)
(* lib/prayer-calculations.ts                                              *)
(***************************************************************************)
Minutes(n) == (n * 60 * 1000) \div UnitMs

DEFAULT_PRAYER_HOLDING_DURATIONS ==
    [fajr |-> Minutes(15), sunrise |-> 0, dhuhr |-> Minutes(10), jumuah1 |-> Minutes(20),
     jumuah2 |-> Minutes(20), asr |-> Minutes(10), maghrib |-> Minutes(15), isha |-> Minutes(15)]

getPrayerHoldingDuration(prayer, durations) ==
    IF prayer \in DOMAIN durations THEN durations[prayer]
    ELSE DEFAULT_PRAYER_HOLDING_DURATIONS.dhuhr

\* parsedTimes[prayer] is defined and has a leg: the negation of
\* (!times || (!times.athan && !times.iqamah)).
HasTimes(parsed, prayer) ==
    /\ prayer \in DOMAIN parsed
    /\ (Truthy(parsed[prayer].athan) \/ Truthy(parsed[prayer].iqamah))

\* A loop that looks at the athan leg only.
RECURSIVE NextFromAthanOnly(_, _, _)
NextFromAthanOnly(parsed, currentTimeMs, i) ==
    IF i > Len(PRAYER_ORDER) THEN "fajr"
    ELSE IF ~HasTimes(parsed, PRAYER_ORDER[i])
    THEN NextFromAthanOnly(parsed, currentTimeMs, i + 1)
    ELSE IF Truthy(parsed[PRAYER_ORDER[i]].athan) /\ currentTimeMs < parsed[PRAYER_ORDER[i]].athan
    THEN PRAYER_ORDER[i]
    ELSE NextFromAthanOnly(parsed, currentTimeMs, i + 1)

\* The loop of getNextPrayerMs from PRAYER_ORDER[i] on.
RECURSIVE NextFrom(_, _, _)
NextFrom(parsed, currentTimeMs, i) ==
    IF i > Len(PRAYER_ORDER) THEN "fajr"
    ELSE IF ~HasTimes(parsed, PRAYER_ORDER[i])
    THEN NextFrom(parsed, currentTimeMs, i + 1)
    ELSE IF Truthy(parsed[PRAYER_ORDER[i]].athan) /\ currentTimeMs < parsed[PRAYER_ORDER[i]].athan
    THEN PRAYER_ORDER[i]
    ELSE IF Truthy(parsed[PRAYER_ORDER[i]].iqamah) /\ currentTimeMs < parsed[PRAYER_ORDER[i]].iqamah
    THEN PRAYER_ORDER[i]
    ELSE NextFrom(parsed, currentTimeMs, i + 1)

getNextPrayerMs(parsed, currentTimeMs) == NextFrom(parsed, currentTimeMs, 1)

NoPrevious == [found |-> FALSE, prayer |-> "", athanMs |-> 0, iqamahMs |-> Null]

\* The list getPreviousPrayerMs builds: one entry per prayer that has times,
\* in PRAYER_ORDER, athanMs being times.athan || times.iqamah || 0.
PrayerWithTimes(prayer, times) ==
    [found |-> TRUE, prayer |-> prayer,
     athanMs |-> IF Truthy(times.athan) THEN times.athan
                 ELSE IF Truthy(times.iqamah) THEN times.iqamah ELSE 0,
     iqamahMs |-> times.iqamah]

RECURSIVE PrayersWithTimes(_, _)
PrayersWithTimes(parsed, i) ==
    IF i > Len(PRAYER_ORDER) THEN << >>
    ELSE IF ~HasTimes(parsed, PRAYER_ORDER[i]) THEN PrayersWithTimes(parsed, i + 1)
    ELSE <<PrayerWithTimes(PRAYER_ORDER[i], parsed[PRAYER_ORDER[i]])>>
         \o PrayersWithTimes(parsed, i + 1)

\* Array.prototype.sort with (a, b) => b.athanMs - a.athanMs: descending and
\* stable, so entries with equal athanMs keep their order.
RECURSIVE InsertDesc(_, _)
InsertDesc(x, sorted) ==
    IF sorted = << >> THEN <<x>>
    ELSE IF Head(sorted).athanMs >= x.athanMs
         THEN <<Head(sorted)>> \o InsertDesc(x, Tail(sorted))
         ELSE <<x>> \o sorted

RECURSIVE SortDesc(_)
SortDesc(list) ==
    IF list = << >> THEN << >>
    ELSE InsertDesc(list[Len(list)], SortDesc(SubSeq(list, 1, Len(list) - 1)))

\* A find that wants the start strictly in the past.
RECURSIVE FindStartedStrictly(_, _)
FindStartedStrictly(list, currentTimeMs) ==
    IF list = << >> THEN NoPrevious
    ELSE IF currentTimeMs > Head(list).athanMs THEN Head(list)
         ELSE FindStartedStrictly(Tail(list), currentTimeMs)

\* Array.prototype.find: the first entry with currentTimeMs >= athanMs.
RECURSIVE FindStarted(_, _)
FindStarted(list, currentTimeMs) ==
    IF list = << >> THEN NoPrevious
    ELSE IF currentTimeMs >= Head(list).athanMs THEN Head(list)
         ELSE FindStarted(Tail(list), currentTimeMs)

getPreviousPrayerMs(parsed, currentTimeMs) ==
    FindStarted(SortDesc(PrayersWithTimes(parsed, 1)), currentTimeMs)

(***************************************************************************)
(* lib/prayer-calculations.ts: the locator on time strings, getNextPrayer  *)
(* and getPreviousPrayer.  Object.entries yields the prayers of a built    *)
(* timeline in the order of PRAYER_ORDER.                                  *)
(***************************************************************************)
\* new Date(`${dateString}T${time}`)
NewDate(dateString, time) == dateString * DayUnits + time

\* A find callback that looks at the athan leg only.
RECURSIVE FindActivePrayerAthanOnly(_, _, _)
FindActivePrayerAthanOnly(prayerTimes, currentTime, i) ==
    IF i > Len(PRAYER_ORDER) THEN ""
    ELSE IF /\ prayerTimes.legs[PRAYER_ORDER[i]].athan # Absent
            /\ currentTime < NewDate(prayerTimes.date, prayerTimes.legs[PRAYER_ORDER[i]].athan)
    THEN PRAYER_ORDER[i]
    ELSE FindActivePrayerAthanOnly(prayerTimes, currentTime, i + 1)

\* Object.entries(prayerTimes).find(...) from the i-th entry on; "" is
\* undefined.
RECURSIVE FindActivePrayer(_, _, _)
FindActivePrayer(prayerTimes, currentTime, i) ==
    IF i > Len(PRAYER_ORDER) THEN ""
    ELSE IF /\ prayerTimes.legs[PRAYER_ORDER[i]].athan = Absent
            /\ prayerTimes.legs[PRAYER_ORDER[i]].iqamah = Absent
    THEN FindActivePrayer(prayerTimes, currentTime, i + 1)
    ELSE IF /\ prayerTimes.legs[PRAYER_ORDER[i]].athan # Absent
            /\ currentTime < NewDate(prayerTimes.date, prayerTimes.legs[PRAYER_ORDER[i]].athan)
    THEN PRAYER_ORDER[i]
    ELSE IF /\ prayerTimes.legs[PRAYER_ORDER[i]].iqamah # Absent
            /\ currentTime < NewDate(prayerTimes.date, prayerTimes.legs[PRAYER_ORDER[i]].iqamah)
    THEN PRAYER_ORDER[i]
    ELSE FindActivePrayer(prayerTimes, currentTime, i + 1)

getNextPrayer(prayerTimes, currentTime) ==
    IF FindActivePrayer(prayerTimes, currentTime, 1) = "" THEN "fajr"
    ELSE FindActivePrayer(prayerTimes, currentTime, 1)

\* The filter and the map of getPreviousPrayer: one entry per prayer with a
\* leg, athan being athan ?? iqamah.
RECURSIVE PrayersWithDates(_, _)
PrayersWithDates(prayerTimes, i) ==
    IF i > Len(PRAYER_ORDER) THEN << >>
    ELSE IF /\ prayerTimes.legs[PRAYER_ORDER[i]].athan = Absent
            /\ prayerTimes.legs[PRAYER_ORDER[i]].iqamah = Absent
    THEN PrayersWithDates(prayerTimes, i + 1)
    ELSE <<[found |-> TRUE, prayer |-> PRAYER_ORDER[i],
            athan |-> NewDate(prayerTimes.date,
                             IF prayerTimes.legs[PRAYER_ORDER[i]].athan # Absent
                             THEN prayerTimes.legs[PRAYER_ORDER[i]].athan
                             ELSE prayerTimes.legs[PRAYER_ORDER[i]].iqamah)]>>
         \o PrayersWithDates(prayerTimes, i + 1)

\* Array.prototype.sort with (a, b) => a.athan.getTime() - b.athan.getTime():
\* ascending and stable.
RECURSIVE InsertAsc(_, _)
InsertAsc(x, sorted) ==
    IF sorted = << >> THEN <<x>>
    ELSE IF Head(sorted).athan <= x.athan
         THEN <<Head(sorted)>> \o InsertAsc(x, Tail(sorted))
         ELSE <<x>> \o sorted

RECURSIVE SortAsc(_)
SortAsc(list) ==
    IF list = << >> THEN << >>
    ELSE InsertAsc(list[Len(list)], SortAsc(SubSeq(list, 1, Len(list) - 1)))

\* Array.prototype.reverse
Reverse(list) == [i \in 1..Len(list) |-> list[Len(list) + 1 - i]]

NoPreviousPrayer == [found |-> FALSE, prayer |-> "", athan |-> 0]

\* prayers.find((prayer) => currentTime >= prayer.athan)
RECURSIVE FindStartedDate(_, _)
FindStartedDate(prayers, currentTime) ==
    IF prayers = << >> THEN NoPreviousPrayer
    ELSE IF currentTime >= Head(prayers).athan THEN Head(prayers)
         ELSE FindStartedDate(Tail(prayers), currentTime)

getPreviousPrayer(prayerTimes, currentTime) ==
    FindStartedDate(Reverse(SortAsc(PrayersWithDates(prayerTimes, 1))), currentTime)

\* A holding window open at its lower end.
isWithinAfterIqamah(iqamahMs, currentTimeMs, prayer) ==
    IF ~Truthy(iqamahMs) THEN FALSE
    ELSE /\ currentTimeMs > iqamahMs
         /\ currentTimeMs < iqamahMs
                + getPrayerHoldingDuration(prayer, DEFAULT_PRAYER_HOLDING_DURATIONS)

isWithinPrayerHoldingPeriodMs(iqamahMs, currentTimeMs, prayer) ==
    IF ~Truthy(iqamahMs) THEN FALSE
    ELSE /\ currentTimeMs >= iqamahMs
         /\ currentTimeMs < iqamahMs
                + getPrayerHoldingDuration(prayer, DEFAULT_PRAYER_HOLDING_DURATIONS)

\* The % of JavaScript: the remainder has the sign of the dividend.
JsRem(a, b) == IF a >= 0 THEN a % b ELSE -((-a) % b)

\* String(n) of an integer: its decimal digits, with a sign when negative.
DecimalDigits == <<"0", "1", "2", "3", "4", "5", "6", "7", "8", "9">>
RECURSIVE DigitsOf(_)
DigitsOf(n) ==
    IF n < 10 THEN DecimalDigits[n + 1]
    ELSE DigitsOf(n \div 10) \o DecimalDigits[(n % 10) + 1]
String(n) == IF n < 0 THEN "-" \o DigitsOf(-n) ELSE DigitsOf(n)

\* str.padStart(targetLength, padString), for a pad string of one character.
RECURSIVE padStart(_, _, _)
padStart(str, targetLength, padString) ==
    IF Len(str) >= targetLength THEN str
    ELSE padStart(padString \o str, targetLength, padString)

\* A format without padding.
formatTimeToGoUnpadded(seconds) ==
    String(seconds \div 3600) \o ":" \o String(JsRem(seconds, 3600) \div 60) \o ":"
       \o String(JsRem(seconds, 60))

\* The HH:MM:SS string.
formatTimeToGo(seconds) ==
    padStart(String(seconds \div 3600), 2, "0") \o ":"
       \o padStart(String(JsRem(seconds, 3600) \div 60), 2, "0") \o ":"
       \o padStart(String(JsRem(seconds, 60)), 2, "0")

(***************************************************************************)
(* State of the page: the time source (use-simulated-time.ts) and the      *)
(* hook usePrayerPageState (use-prayer-page-state.ts).                     *)
(***************************************************************************)
VARIABLES
    calendar,             \* which data files are bundled (fixed after start)
    isProduction,         \* NEXT_PUBLIC_ENV === "production"
    mounted,              \* the component is mounted
    currentTime,          \* useSimulatedTime: currentTime, in units
    simulatedTimeRef,     \* useSimulatedTime: simulatedTimeRef (Null when unset)
    isSimulating,         \* useSimulatedTime: isSimulating
    todayPrayerTimes,     \* memo keyed by dateString
    parsedTimes,          \* memo keyed by dateString
    previousPrayerMs,     \* memo keyed by parsedTimes and currentTimeMs
    nextPrayerKey,        \* memo keyed by parsedTimes and currentTimeMs
    showPrayerNow,        \* useState: the holding state (TRUE = Holding)
    isCountingToIqamah,   \* useState: countdown mode
    countdown,            \* useState: formatted countdown ("" before the first one)
    prayerNowTimeoutRef,  \* useRef: handle of the expiry timer (NoHandle = null)
    activeTimeouts,       \* timers set and neither cleared nor fired
    depTime,              \* currentTimeMs the effect last ran with
    depShow,              \* showPrayerNow the effect last ran with
    hasCleanup,           \* the last effect run returned its cleanup function
    fault,                \* the call of the try block that throws when next reached
    caughtError,          \* the last effect run went through its catch block
    probe,                \* a library function called on its own: its input and result
    athanDataByYear,      \* lib/prayer-data.ts: the bundled athan JSON, by year
    iqamahDataByYear,     \* lib/prayer-data.ts: the bundled iqamah JSON, by year
    validatedAthanCache,  \* lib/prayer-data.ts: validatedAthanCache
    validatedIqamahCache, \* lib/prayer-data.ts: validatedIqamahCache
    clock                 \* hooks/use-simulated-time.ts on its own: its state, refs and interval

vars == <<calendar, isProduction, mounted, currentTime, simulatedTimeRef, isSimulating,
          todayPrayerTimes, parsedTimes, previousPrayerMs, nextPrayerKey,
          showPrayerNow, isCountingToIqamah, countdown,
          prayerNowTimeoutRef, activeTimeouts, depTime, depShow, hasCleanup,
          fault, caughtError, probe,
          athanDataByYear, iqamahDataByYear, validatedAthanCache, validatedIqamahCache,
          clock>>

\* The data module's own state, the probe, and the time source taken on its own.
libVars == <<probe, athanDataByYear, iqamahDataByYear, validatedAthanCache, validatedIqamahCache,
             clock>>
dataVars == <<athanDataByYear, iqamahDataByYear, validatedAthanCache, validatedIqamahCache>>

\* No library function is being called on its own.
NoProbe == [kind |-> "none"]
\* The data module is not exercised: no file is looked at, nothing is cached.
DataUnused ==
    /\ athanDataByYear = << >>
    /\ iqamahDataByYear = << >>
    /\ validatedAthanCache = << >>
    /\ validatedIqamahCache = << >>
\* The time source is not exercised on its own.
NoClock == [kind |-> "none"]
LibUnused == probe = NoProbe /\ DataUnused /\ clock = NoClock

NoHandle == 0
TimerIds == 1..MaxTimers

\* The hook's state as one record, and the state before the first render.
Hook ==
    [currentTime |-> currentTime, todayPrayerTimes |-> todayPrayerTimes,
     parsedTimes |-> parsedTimes, previousPrayerMs |-> previousPrayerMs,
     nextPrayerKey |-> nextPrayerKey, showPrayerNow |-> showPrayerNow,
     isCountingToIqamah |-> isCountingToIqamah, countdown |-> countdown,
     prayerNowTimeoutRef |-> prayerNowTimeoutRef, activeTimeouts |-> activeTimeouts,
     depTime |-> depTime, depShow |-> depShow, hasCleanup |-> hasCleanup,
     fault |-> fault, caughtError |-> caughtError]

Unrendered(t) ==
    [currentTime |-> t, todayPrayerTimes |-> [date |-> 0, legs |-> EmptyLegs],
     parsedTimes |-> << >>, previousPrayerMs |-> NoPrevious, nextPrayerKey |-> "fajr",
     showPrayerNow |-> FALSE,
     isCountingToIqamah |-> FALSE, countdown |-> "",
     prayerNowTimeoutRef |-> NoHandle, activeTimeouts |-> {},
     depTime |-> 0, depShow |-> FALSE, hasCleanup |-> FALSE,
     fault |-> "none", caughtError |-> FALSE]

\* setTimeout: the runtime hands out a handle not in use.
setTimeout(active) ==
    IF \E i \in TimerIds : i \notin active
    THEN CHOOSE i \in TimerIds : i \notin active /\ \A j \in TimerIds : j < i => j \in active
    ELSE MaxTimers

\* clearTimeout(prayerNowTimeoutRef.current) when the ref holds a handle.
ClearExisting(h) ==
    IF h.prayerNowTimeoutRef # NoHandle
    THEN [h EXCEPT !.activeTimeouts = @ \ {h.prayerNowTimeoutRef}]
    ELSE h

\* A setTimeout whose handle is not kept in the ref.
StoreHandleLost(h, id) ==
    [h EXCEPT !.activeTimeouts = @ \cup {id}]

\* prayerNowTimeoutRef.current = setTimeout(..., holdingDuration)
StoreHandle(h, id) ==
    [h EXCEPT !.activeTimeouts = @ \cup {id}, !.prayerNowTimeoutRef = id]

ArmTimer(h) == StoreHandle(h, setTimeout(h.activeTimeouts))

\* An effect that returns no cleanup.
CleanupSkipped(h) == h

\* The cleanup function the effect returns.
Cleanup(h) ==
    IF h.prayerNowTimeoutRef # NoHandle
    THEN [h EXCEPT !.activeTimeouts = @ \ {h.prayerNowTimeoutRef},
                   !.prayerNowTimeoutRef = NoHandle]
    ELSE h

\* The two useMemo of the render: rebuilt only when dateString changes.
Rebuild(h, today) ==
    [h EXCEPT !.todayPrayerTimes = today,
              !.parsedTimes = parsePrayerTimesToMs(today, getTomorrowDateString(h.currentTime))]

\* Memos that recompute on every render.
RenderTimelineEveryRender(c, h) ==
    Rebuild(h, getCombinedPrayerTimes(c, getDateString(h.currentTime)))

RenderTimeline(c, h) ==
    IF h.todayPrayerTimes.date = getDateString(h.currentTime) THEN h
    ELSE Rebuild(h, getCombinedPrayerTimes(c, getDateString(h.currentTime)))

\* The useMemo of previousPrayerMs and nextPrayerKey.
RenderLocator(h) ==
    [h EXCEPT !.previousPrayerMs = getPreviousPrayerMs(h.parsedTimes, h.currentTime),
              !.nextPrayerKey = getNextPrayerMs(h.parsedTimes, h.currentTime)]

Render(c, h) == RenderLocator(RenderTimeline(c, h))

\* parsedTimes.isha?.iqamah ?? parsedTimes.isha?.athan ?? 0
IshaTimeMs(parsed) ==
    IF "isha" \notin DOMAIN parsed THEN 0
    ELSE IF parsed["isha"].iqamah # Null THEN parsed["isha"].iqamah
    ELSE parsed["isha"].athan

\* times.athan || times.iqamah || 0
NextPrayerAthanMs(times) ==
    IF Truthy(times.athan) THEN times.athan
    ELSE IF Truthy(times.iqamah) THEN times.iqamah ELSE 0

\* A target selection that never counts down to an iqamah.
CountdownTargetAthanOnly(parsed, nextKey, currentTimeMs) ==
    IF currentTimeMs >= IshaTimeMs(parsed)
    THEN <<IF "tomorrowFajr" \in DOMAIN parsed THEN parsed["tomorrowFajr"].athan ELSE 0, FALSE>>
    ELSE <<NextPrayerAthanMs(parsed[nextKey]), FALSE>>

\* Countdown target selection of the effect: <<targetTimeMs, isCountingToIqamah>>.
CountdownTarget(parsed, nextKey, currentTimeMs) ==
    IF currentTimeMs >= IshaTimeMs(parsed)
    THEN <<IF "tomorrowFajr" \in DOMAIN parsed THEN parsed["tomorrowFajr"].athan ELSE 0, FALSE>>
    ELSE IF /\ currentTimeMs > NextPrayerAthanMs(parsed[nextKey])
            /\ Truthy(parsed[nextKey].iqamah)
    THEN <<parsed[nextKey].iqamah, TRUE>>
    ELSE <<NextPrayerAthanMs(parsed[nextKey]), FALSE>>

\* The branches on showPrayerNow and withinHoldingPeriod.
HoldingBranches(h, withinHoldingPeriod) ==
    IF ~h.showPrayerNow /\ withinHoldingPeriod
    THEN ArmTimer(ClearExisting([h EXCEPT !.showPrayerNow = TRUE]))
    ELSE IF h.showPrayerNow /\ ~withinHoldingPeriod
    THEN [h EXCEPT !.showPrayerNow = FALSE]
    ELSE h

\* A catch block that logs the error and leaves the state alone.
CaughtWithoutReset(h) == [h EXCEPT !.caughtError = TRUE]

\* The catch block: console.error(error); setShowPrayerNow(false).
Caught(h) == [h EXCEPT !.showPrayerNow = FALSE, !.caughtError = TRUE]

\* The try block.  A call of it may throw: "evaluate" is a throw of
\* getPrayerHoldingDuration or isWithinPrayerHoldingPeriodMs, "clear" one of
\* clearTimeout, "arm" one of setTimeout; the statements before the throw
\* have run, the ones after it have not.
TryBlock(h, withinHoldingPeriod) ==
    IF h.fault = "evaluate" THEN Caught(h)
    ELSE IF h.fault = "clear" /\ ~h.showPrayerNow /\ withinHoldingPeriod
            /\ h.prayerNowTimeoutRef # NoHandle
    THEN Caught([h EXCEPT !.showPrayerNow = TRUE])
    ELSE IF h.fault = "arm" /\ ~h.showPrayerNow /\ withinHoldingPeriod
    THEN Caught(ClearExisting([h EXCEPT !.showPrayerNow = TRUE]))
    ELSE HoldingBranches(h, withinHoldingPeriod)

\* The "prayer now" part of the effect, guarded by if (previousPrayerMs).
HoldingEvaluation(h) ==
    IF ~h.previousPrayerMs.found THEN h
    ELSE [TryBlock(h, isWithinPrayerHoldingPeriodMs(h.previousPrayerMs.iqamahMs,
                          h.currentTime, h.previousPrayerMs.prayer))
          EXCEPT !.fault = "none"]

\* timeToGoInSeconds = Math.floor((targetTimeMs - currentTimeMs) / 1000)
TimeToGoInSeconds(targetTimeMs, currentTimeMs) ==
    ((targetTimeMs - currentTimeMs) * UnitMs) \div 1000

\* A countdown rounded up to whole seconds.
CountdownRoundedUp(targetTimeMs, currentTimeMs) ==
    formatTimeToGo(((targetTimeMs - currentTimeMs + 999) \div 1000) + 1)

\* setCountdown(formatTimeToGo(timeToGoInSeconds + 1)), on milliseconds.
CountdownOf(targetTimeMs, currentTimeMs) ==
    formatTimeToGo(((targetTimeMs - currentTimeMs) \div 1000) + 1)

SetCountdown(h, target) ==
    [h EXCEPT !.isCountingToIqamah = target[2],
              !.countdown = CountdownOf(target[1] * UnitMs, h.currentTime * UnitMs)]

\* The body of the main timer effect; the early return leaves no cleanup
\* function.
EffectBody(h) ==
    IF ~HasTimes(h.parsedTimes, h.nextPrayerKey)
    THEN [h EXCEPT !.hasCleanup = FALSE]
    ELSE [HoldingEvaluation(
              SetCountdown(h, CountdownTarget(h.parsedTimes, h.nextPrayerKey, h.currentTime)))
          EXCEPT !.hasCleanup = TRUE]

\* One run of the effect on the rendered state h; the dependencies it ran
\* with are remembered.
Effect(h) ==
    EffectBody([h EXCEPT !.depTime = h.currentTime, !.depShow = h.showPrayerNow,
                         !.caughtError = FALSE])

\* A commit that re-runs the effect without the cleanup of its previous run.
CommitEffectsWithoutCleanup(r) ==
    IF r.currentTime = r.depTime /\ r.showPrayerNow = r.depShow THEN r
    ELSE Effect(r)

\* The commit of a render r: the effect re-runs when one of its dependencies
\* changed (parsedTimes, nextPrayerKey and previousPrayerMs change only with
\* currentTimeMs), after the cleanup of its previous run.
CommitEffects(r) ==
    IF r.currentTime = r.depTime /\ r.showPrayerNow = r.depShow THEN r
    ELSE Effect(IF r.hasCleanup THEN Cleanup(r) ELSE r)

Commit(c, h) == CommitEffects(Render(c, h))

Store(h) ==
    /\ currentTime' = h.currentTime
    /\ todayPrayerTimes' = h.todayPrayerTimes
    /\ parsedTimes' = h.parsedTimes
    /\ previousPrayerMs' = h.previousPrayerMs
    /\ nextPrayerKey' = h.nextPrayerKey
    /\ showPrayerNow' = h.showPrayerNow
    /\ isCountingToIqamah' = h.isCountingToIqamah
    /\ countdown' = h.countdown
    /\ prayerNowTimeoutRef' = h.prayerNowTimeoutRef
    /\ activeTimeouts' = h.activeTimeouts
    /\ depTime' = h.depTime
    /\ depShow' = h.depShow
    /\ hasCleanup' = h.hasCleanup
    /\ fault' = h.fault
    /\ caughtError' = h.caughtError

(***************************************************************************)
(* Bounds of the exploration.                                              *)
(***************************************************************************)
\* The clock runs from the first instant of date 1 to TailUnits units into
\* the first date without data.
TailUnits == 6
MinInstant == DayUnits
MaxInstant == (NumDays + 1) * DayUnits + TailUnits
\* A sample of the real clock is at most this many units after the last one.
MaxRealStep == 2
\* Instants the page is opened at, instants typed into the DevTools panel,
\* and the jumps of its buttons (in minutes).
InitInstants == {DayUnits + HHMM(0,0), DayUnits + HHMM(13,5)}
SetInstants == {d * DayUnits + tod : d \in 1..NumDays, tod \in {HHMM(5,0), HHMM(13,5), HHMM(23,55)}}
JumpMinutes == {-720, -60, 60, 720}
InRange(t) == MinInstant <= t /\ t <= MaxInstant

(***************************************************************************)
(* Init: the page after its first render and the first run of its effects. *)
(***************************************************************************)
InitHook(c, h) ==
    /\ calendar = c
    /\ LibUnused
    /\ isProduction \in BOOLEAN
    /\ mounted = TRUE
    /\ simulatedTimeRef = Null
    /\ isSimulating = FALSE
    /\ currentTime = h.currentTime
    /\ todayPrayerTimes = h.todayPrayerTimes
    /\ parsedTimes = h.parsedTimes
    /\ previousPrayerMs = h.previousPrayerMs
    /\ nextPrayerKey = h.nextPrayerKey
    /\ showPrayerNow = h.showPrayerNow
    /\ isCountingToIqamah = h.isCountingToIqamah
    /\ countdown = h.countdown
    /\ prayerNowTimeoutRef = h.prayerNowTimeoutRef
    /\ activeTimeouts = h.activeTimeouts
    /\ depTime = h.depTime
    /\ depShow = h.depShow
    /\ hasCleanup = h.hasCleanup
    /\ fault = h.fault
    /\ caughtError = h.caughtError

Init == \E c \in 1..Len(RawDays), t \in InitInstants : InitHook(c, Commit(c, Unrendered(t)))

\* setCurrentTime(t) followed by the render it causes.
SetCurrentTime(t) == Store(Commit(calendar, [Hook EXCEPT !.currentTime = t]))

(***************************************************************************)
(* use-simulated-time.ts: tick.  One step of the simulated clock stands    *)
(* for the UnitMs / 1000 ticks of 1000 ms that cross one unit.             *)
(***************************************************************************)
TickReal ==
    /\ mounted
    /\ isProduction \/ ~(isSimulating /\ simulatedTimeRef # Null)
    /\ \E d \in 1..MaxRealStep :
        /\ InRange(currentTime + d)
        /\ SetCurrentTime(currentTime + d)
    /\ UNCHANGED <<libVars, calendar, isProduction, mounted, simulatedTimeRef, isSimulating>>

TickSimulated ==
    /\ mounted
    /\ ~isProduction /\ isSimulating /\ simulatedTimeRef # Null
    /\ InRange(simulatedTimeRef + 1)
    /\ simulatedTimeRef' = simulatedTimeRef + 1
    /\ SetCurrentTime(simulatedTimeRef + 1)
    /\ UNCHANGED <<libVars, calendar, isProduction, mounted, isSimulating>>

setSimulatedTimeHandler ==
    /\ mounted /\ ~isProduction
    /\ \E t \in SetInstants :
        /\ simulatedTimeRef' = t
        /\ SetCurrentTime(t)
    /\ isSimulating' = TRUE
    /\ UNCHANGED <<libVars, calendar, isProduction, mounted>>

\* simulatedTimeRef.current || new Date()
JumpBase == IF simulatedTimeRef # Null THEN simulatedTimeRef ELSE currentTime

jumpForward ==
    /\ mounted /\ ~isProduction
    /\ \E minutes \in JumpMinutes :
        /\ InRange(JumpBase + Minutes(minutes))
        /\ simulatedTimeRef' = JumpBase + Minutes(minutes)
        /\ SetCurrentTime(JumpBase + Minutes(minutes))
    /\ isSimulating' = TRUE
    /\ UNCHANGED <<libVars, calendar, isProduction, mounted>>

\* reset: back to the real clock, whatever it reads.
reset ==
    /\ mounted /\ ~isProduction
    /\ simulatedTimeRef' = Null
    /\ isSimulating' = FALSE
    /\ \E t \in SetInstants :
        /\ currentTime' = t
        /\ SetCurrentTime(t)
    /\ UNCHANGED <<libVars, calendar, isProduction, mounted>>

(***************************************************************************)
(* use-prayer-page-state.ts: re-render, timer callback, unmount.           *)
(***************************************************************************)
\* A re-render with the time unchanged: the one scheduled by a
\* setShowPrayerNow of the effect, or a forced one, which changes nothing.
Rerender ==
    /\ mounted
    /\ Store(Commit(calendar, Hook))
    /\ UNCHANGED <<libVars, calendar, isProduction, mounted, simulatedTimeRef, isSimulating>>

\* The callback of the expiry timer.
TimerFire ==
    /\ \E id \in activeTimeouts :
        /\ activeTimeouts' = activeTimeouts \ {id}
        /\ prayerNowTimeoutRef' = NoHandle
    /\ showPrayerNow' = IF mounted THEN FALSE ELSE showPrayerNow
    /\ UNCHANGED <<libVars, calendar, isProduction, mounted, currentTime, simulatedTimeRef, isSimulating,
                   todayPrayerTimes, parsedTimes, previousPrayerMs, nextPrayerKey,
                   isCountingToIqamah, countdown, depTime, depShow, hasCleanup,
                   fault, caughtError>>

\* Unmount: the cleanup of the last effect run, if it returned one.
Unmount ==
    /\ mounted
    /\ mounted' = FALSE
    /\ Store(IF hasCleanup THEN Cleanup(Hook) ELSE Hook)
    /\ UNCHANGED <<libVars, calendar, isProduction, simulatedTimeRef, isSimulating>>

Next ==
    \/ TickReal
    \/ TickSimulated
    \/ setSimulatedTimeHandler
    \/ jumpForward
    \/ reset
    \/ Rerender
    \/ Unmount

Spec == Init /\ [][Next]_vars

\* The same with the timer callback allowed to run whenever a timer is
\* outstanding, whatever its delay.
NextAsync == Next \/ TimerFire

SpecAsync == Init /\ [][NextAsync]_vars

\* A call inside the try block of the effect is about to throw.
Faults == {"evaluate", "clear", "arm"}
InjectFault ==
    /\ mounted
    /\ fault = "none"
    /\ fault' \in Faults
    /\ UNCHANGED <<libVars, calendar, isProduction, mounted, currentTime, simulatedTimeRef,
                   isSimulating, todayPrayerTimes, parsedTimes, previousPrayerMs, nextPrayerKey,
                   showPrayerNow, isCountingToIqamah, countdown, prayerNowTimeoutRef,
                   activeTimeouts, depTime, depShow, hasCleanup, caughtError>>

\* The page with calls of the try block that throw.
NextFaulty == NextAsync \/ InjectFault

\* The data files the faulty page is run on: a weekday followed by a Friday,
\* and a Friday with jumuah2 only followed by a summer day.
FaultCalendars == {1, 4}
InitFaulty == Init /\ calendar \in FaultCalendars

SpecFaulty == InitFaulty /\ [][NextFaulty]_vars

TypeOK ==
    /\ calendar \in 1..Len(RawDays)
    /\ InRange(currentTime)
    /\ showPrayerNow \in BOOLEAN
    /\ prayerNowTimeoutRef \in TimerIds \cup {NoHandle}
    /\ activeTimeouts \subseteq TimerIds

(***************************************************************************)
(* What the page shows, as the hook derives it from its state.             *)
(***************************************************************************)
\* The legs of today's timeline as instants.
HasIqamahLeg(p) == todayPrayerTimes.legs[p].iqamah # Absent
HasAthanLeg(p) == todayPrayerTimes.legs[p].athan # Absent
IqamahInstant(p) == todayPrayerTimes.date * DayUnits + todayPrayerTimes.legs[p].iqamah
AthanInstant(p) == todayPrayerTimes.date * DayUnits + todayPrayerTimes.legs[p].athan
HoldingDuration(p) == getPrayerHoldingDuration(p, DEFAULT_PRAYER_HOLDING_DURATIONS)

(***************************************************************************)
(* Timer discipline                                                        *)
(***************************************************************************)
\* C1: whatever ticks, manual sets, jumps, resets and forced re-evaluations
\* have happened, at most one holding-expiry timer is outstanding: a timer
\* armed earlier has been cancelled by the time a new one is armed.
C1_AtMostOneTimer == Cardinality(activeTimeouts) <= 1

\* A timer is armed on a page whose clock has been set by hand.
C1_Witness ==
    /\ mounted /\ isSimulating
    /\ Cardinality(activeTimeouts) = 1
    /\ prayerNowTimeoutRef \in activeTimeouts

\* C2: once the page is unmounted no holding-expiry timer is outstanding,
\* also when it is unmounted while Holding with the timer just armed.
C2_NoTimerAfterUnmount == ~mounted => activeTimeouts = {}

\* Unmounted in the state the effect leaves right after arming the timer:
\* showPrayerNow set, the re-render it schedules not yet done.
C2_Witness == ~mounted /\ showPrayerNow /\ ~depShow

(***************************************************************************)
(* Holding window                                                          *)
(***************************************************************************)
\* C3: when the current instant is exactly the iqamah of a prayer of
\* today's timeline, the page is Holding and the prayer it holds for
\* (the previous prayer) is that prayer.
C3_HoldingAtIqamah ==
    \A p \in PrayerNames :
        (mounted /\ HasIqamahLeg(p) /\ currentTime = IqamahInstant(p))
            => (showPrayerNow /\ previousPrayerMs.found /\ previousPrayerMs.prayer = p)

\* The clock stands at the iqamah of jumuah2 on a Friday, Holding.
C3_Witness ==
    /\ mounted /\ HasIqamahLeg("jumuah1") /\ HasIqamahLeg("jumuah2")
    /\ currentTime = IqamahInstant("jumuah2")
    /\ showPrayerNow /\ previousPrayerMs.prayer = "jumuah2"

\* Yesterday's timeline: a holding window that opens late in the evening
\* closes on the next date.
YesterdayPrayerTimes == getCombinedPrayerTimes(calendar, getDateString(currentTime) - 1)
AtIqamah(p) == HasIqamahLeg(p) /\ currentTime = IqamahInstant(p)
AtExpiry(p) ==
    \/ HasIqamahLeg(p) /\ currentTime = IqamahInstant(p) + HoldingDuration(p)
    \/ /\ YesterdayPrayerTimes.legs[p].iqamah # Absent
       /\ currentTime = YesterdayPrayerTimes.date * DayUnits
                            + YesterdayPrayerTimes.legs[p].iqamah + HoldingDuration(p)

\* C4: when the current instant is exactly the iqamah of a prayer plus that
\* prayer's holding duration, the page is Idle.
C4_IdleAtExpiry == \A p \in PrayerNames : AtExpiry(p) => ~showPrayerNow

\* The current instant is strictly before the first present leg of the day.
BeforeFirstLeg ==
    /\ \E p \in PrayerNames : HasAthanLeg(p) \/ HasIqamahLeg(p)
    /\ \A p \in PrayerNames :
        /\ HasAthanLeg(p) => currentTime < AthanInstant(p)
        /\ HasIqamahLeg(p) => currentTime < IqamahInstant(p)

\* C5: whenever the current instant is strictly before the day's first
\* present leg there is no previous prayer and the page is Idle, however
\* that instant was reached.
C5_IdleBeforeFirstLeg == BeforeFirstLeg => (~previousPrayerMs.found /\ ~showPrayerNow)

\* The holding predicate: the previous prayer has an iqamah and the current
\* instant is in [iqamah, iqamah + holdingDuration).
HoldingPredicate ==
    /\ previousPrayerMs.found
    /\ isWithinPrayerHoldingPeriodMs(previousPrayerMs.iqamahMs, currentTime,
                                     previousPrayerMs.prayer)

\* C6: a step that moves the clock while the page is Holding, to an instant
\* at which the holding predicate is false, leaves the page Idle.
C6_ReevaluationLeavesHolding ==
    [][(showPrayerNow /\ mounted' /\ currentTime' # currentTime /\ ~HoldingPredicate')
            => ~showPrayerNow']_vars

(***************************************************************************)
(* The page opened at midnight and left to tick, one tick per unit.        *)
(***************************************************************************)
InitMidnight == Init /\ currentTime = MinInstant

TickEverySecond == TickReal /\ currentTime' = currentTime + 1

SpecTicking == InitMidnight /\ [][TickEverySecond]_vars

\* C7: with the clock ticking forward, the page goes from Idle to Holding
\* exactly at the iqamah of each prayer that has one and from Holding to
\* Idle exactly at that prayer's expiry: every such instant sees its
\* transition and no transition happens at another instant.
C7_OneTransitionPerPrayer ==
    [][/\ \A p \in PrayerNames : AtIqamah(p)' => (~showPrayerNow /\ showPrayerNow')
       /\ \A p \in PrayerNames : AtExpiry(p)' => (showPrayerNow /\ ~showPrayerNow')
       /\ (~showPrayerNow /\ showPrayerNow') => \E p \in PrayerNames : AtIqamah(p)'
       /\ (showPrayerNow /\ ~showPrayerNow') => \E p \in PrayerNames : AtExpiry(p)'
      ]_vars

(***************************************************************************)
(* The Event Locator on its own: getNextPrayerMs and getPreviousPrayerMs   *)
(* (the two memos of the hook) applied to arbitrary ParsedPrayerTimestamps *)
(* and instants, not only those a built timeline yields.                   *)
(***************************************************************************)
\* Instants are 1..MaxLocInstant, and at most MaxLocEntries prayers have an
\* entry.
MaxLocInstant == 2
MaxLocEntries == 2

\* { athan: number; iqamah: number | null }, athan 0 being a missing leg.
LocEntries == [athan : 0..MaxLocInstant, iqamah : {Null} \cup 1..MaxLocInstant]

InitLocator ==
    /\ \E D \in {S \in SUBSET PrayerNames : Cardinality(S) <= MaxLocEntries} :
            parsedTimes \in [D -> LocEntries]
    /\ currentTime = 0
    /\ previousPrayerMs = getPreviousPrayerMs(parsedTimes, 0)
    /\ nextPrayerKey = getNextPrayerMs(parsedTimes, 0)
    /\ LibUnused
    /\ calendar = 1 /\ isProduction = TRUE /\ mounted = FALSE
    /\ simulatedTimeRef = Null /\ isSimulating = FALSE
    /\ todayPrayerTimes = [date |-> 0, legs |-> EmptyLegs]
    /\ showPrayerNow = FALSE /\ isCountingToIqamah = FALSE /\ countdown = ""
    /\ prayerNowTimeoutRef = NoHandle /\ activeTimeouts = {}
    /\ depTime = 0 /\ depShow = FALSE /\ hasCleanup = FALSE
    /\ fault = "none" /\ caughtError = FALSE

\* The memos recomputed for the next instant.
Locate ==
    /\ currentTime <= MaxLocInstant
    /\ currentTime' = currentTime + 1
    /\ previousPrayerMs' = getPreviousPrayerMs(parsedTimes, currentTime + 1)
    /\ nextPrayerKey' = getNextPrayerMs(parsedTimes, currentTime + 1)
    /\ UNCHANGED <<libVars, calendar, isProduction, mounted, simulatedTimeRef, isSimulating,
                   todayPrayerTimes, parsedTimes, showPrayerNow, isCountingToIqamah,
                   countdown, prayerNowTimeoutRef, activeTimeouts, depTime, depShow,
                   hasCleanup, fault, caughtError>>

SpecLocator == InitLocator /\ [][Locate]_vars

\* A leg of an entry of parsedTimes is present, and its prayer still ahead.
AthanPresent(p) == p \in DOMAIN parsedTimes /\ parsedTimes[p].athan # 0
IqamahPresent(p) == p \in DOMAIN parsedTimes /\ parsedTimes[p].iqamah # Null
StillAhead(p) ==
    \/ AthanPresent(p) /\ currentTime < parsedTimes[p].athan
    \/ IqamahPresent(p) /\ currentTime < parsedTimes[p].iqamah

\* C8: the next prayer is the first one in the canonical order that has a
\* present leg with its athan or its iqamah still in the future, and fajr
\* when there is none; a prayer without any present leg is never the
\* answer other than as that sentinel.
C8_FindNext ==
    /\ (\E i \in 1..Len(PRAYER_ORDER) : StillAhead(PRAYER_ORDER[i]))
        => \E i \in 1..Len(PRAYER_ORDER) :
                /\ nextPrayerKey = PRAYER_ORDER[i]
                /\ StillAhead(PRAYER_ORDER[i])
                /\ \A j \in 1..(i - 1) : ~StillAhead(PRAYER_ORDER[j])
    /\ (\A i \in 1..Len(PRAYER_ORDER) : ~StillAhead(PRAYER_ORDER[i]))
        => nextPrayerKey = "fajr"
    /\ nextPrayerKey # "fajr" => (AthanPresent(nextPrayerKey) \/ IqamahPresent(nextPrayerKey))

\* fajr has an entry without any leg and is passed over; the answer is a
\* prayer whose athan has passed and whose iqamah is still ahead.
C8_Witness ==
    /\ "fajr" \in DOMAIN parsedTimes
    /\ ~AthanPresent("fajr") /\ ~IqamahPresent("fajr")
    /\ nextPrayerKey = "asr"
    /\ AthanPresent("asr") /\ parsedTimes["asr"].athan <= currentTime
    /\ IqamahPresent("asr") /\ currentTime < parsedTimes["asr"].iqamah

\* The effective start of a prayer: its athan, or its iqamah when it has
\* no athan.
EffectiveStart(p) ==
    IF parsedTimes[p].athan # 0 THEN parsedTimes[p].athan ELSE parsedTimes[p].iqamah
Started(p) ==
    /\ AthanPresent(p) \/ IqamahPresent(p)
    /\ EffectiveStart(p) <= currentTime

\* C9: the previous prayer is a prayer with the latest effective start at
\* or before the current instant, and there is none exactly when no prayer
\* has started.
C9_FindPrevious ==
    IF \E p \in PrayerNames : Started(p)
    THEN /\ previousPrayerMs.found
         /\ previousPrayerMs.prayer \in PrayerNames
         /\ Started(previousPrayerMs.prayer)
         /\ previousPrayerMs.athanMs = EffectiveStart(previousPrayerMs.prayer)
         /\ \A q \in PrayerNames :
                Started(q) => EffectiveStart(q) <= EffectiveStart(previousPrayerMs.prayer)
    ELSE ~previousPrayerMs.found

\* jumuah2, which starts at its iqamah, is the previous prayer at the very
\* instant it starts, ahead of a prayer that started earlier.
C9_Witness ==
    /\ previousPrayerMs.found /\ previousPrayerMs.prayer = "jumuah2"
    /\ ~AthanPresent("jumuah2") /\ parsedTimes["jumuah2"].iqamah = currentTime
    /\ \E q \in PrayerNames \ {"jumuah2"} : Started(q) /\ EffectiveStart(q) < currentTime

(***************************************************************************)
(* Countdown Engine                                                        *)
(***************************************************************************)
\* The effective Isha instant of today's timeline: iqamah if present, else
\* athan.
EffectiveIsha ==
    IF HasIqamahLeg("isha") THEN IqamahInstant("isha") ELSE AthanInstant("isha")

\* The fajr athan of the timeline of the next calendar date.
TomorrowPrayerTimes == getCombinedPrayerTimes(calendar, getDateString(currentTime) + 1)
TomorrowFajrAthan ==
    TomorrowPrayerTimes.date * DayUnits + TomorrowPrayerTimes.legs["fajr"].athan

\* The decision order, first match wins: <<target, counting to iqamah>>.
DecidedCountdown ==
    IF currentTime >= EffectiveIsha
    THEN <<TomorrowFajrAthan, FALSE>>
    ELSE IF /\ HasAthanLeg(nextPrayerKey) /\ currentTime > AthanInstant(nextPrayerKey)
            /\ HasIqamahLeg(nextPrayerKey)
    THEN <<IqamahInstant(nextPrayerKey), TRUE>>
    ELSE <<IF HasAthanLeg(nextPrayerKey) THEN AthanInstant(nextPrayerKey)
           ELSE IqamahInstant(nextPrayerKey), FALSE>>

\* An evaluation that computes a countdown: the next prayer has a leg, and
\* so has tomorrow's fajr.
CountdownComputed ==
    /\ HasTimes(parsedTimes, nextPrayerKey)
    /\ TomorrowPrayerTimes.legs["fajr"].athan # Absent

\* C10: the countdown shown and its mode are those of the decision order:
\* at or after the effective Isha the target is tomorrow's fajr athan
\* (to athan); else, after the next prayer's athan with its iqamah present,
\* that iqamah (to iqamah); else the next prayer's athan, or its iqamah
\* when it has no athan (to athan).
C10_CountdownDecision ==
    CountdownComputed =>
        /\ isCountingToIqamah = DecidedCountdown[2]
        /\ countdown = formatTimeToGo(TimeToGoInSeconds(DecidedCountdown[1], currentTime) + 1)

\* The target the effect computed at the current instant.
TargetTimeMs == CountdownTarget(parsedTimes, nextPrayerKey, currentTime)[1]

\* C11: whenever the current instant is at or after the effective Isha
\* instant, the target of the countdown is the fajr athan instant of the
\* timeline built for the next calendar date.
C11_TargetIsTomorrowsFajr ==
    (CountdownComputed /\ currentTime >= EffectiveIsha) => TargetTimeMs = TomorrowFajrAthan

(***************************************************************************)
(* Library functions called on their own.  The page is not mounted and its *)
(* state stays as it is; probe holds the arguments and the result.         *)
(***************************************************************************)
HookUnused ==
    /\ calendar = 1 /\ isProduction = TRUE /\ mounted = FALSE
    /\ currentTime = MinInstant /\ simulatedTimeRef = Null /\ isSimulating = FALSE
    /\ todayPrayerTimes = [date |-> 0, legs |-> EmptyLegs] /\ parsedTimes = << >>
    /\ previousPrayerMs = NoPrevious /\ nextPrayerKey = "fajr"
    /\ showPrayerNow = FALSE /\ isCountingToIqamah = FALSE /\ countdown = ""
    /\ prayerNowTimeoutRef = NoHandle /\ activeTimeouts = {}
    /\ depTime = 0 /\ depShow = FALSE /\ hasCleanup = FALSE
    /\ fault = "none" /\ caughtError = FALSE

hookVars == <<calendar, isProduction, mounted, currentTime, simulatedTimeRef, isSimulating,
              todayPrayerTimes, parsedTimes, previousPrayerMs, nextPrayerKey,
              showPrayerNow, isCountingToIqamah, countdown,
              prayerNowTimeoutRef, activeTimeouts, depTime, depShow, hasCleanup,
              fault, caughtError>>

PageUnused == HookUnused /\ clock = NoClock

pageVars == <<hookVars, clock>>

(***************************************************************************)
(* The countdown computation on millisecond timestamps: a target on a      *)
(* whole minute, up to MaxProbeMinutes minutes ahead, and a clock sample   *)
(* anywhere inside a second.                                               *)
(***************************************************************************)
MaxProbeMinutes == 61
EpochMs == DayUnits * UnitMs
ProbeMillis == {0, 1, 499, 500, 999, 1000}

InitCountdown ==
    /\ PageUnused
    /\ DataUnused
    /\ probe \in [kind : {"countdown"},
                  targetTimeMs : {EpochMs + 1000 + k * 60 * 1000 : k \in 0..MaxProbeMinutes},
                  currentTimeMs : {EpochMs + f : f \in ProbeMillis},
                  countdown : {""}]

ComputeCountdown ==
    /\ probe.kind = "countdown" /\ probe.countdown = ""
    /\ probe' = [probe EXCEPT !.countdown = CountdownOf(probe.targetTimeMs, probe.currentTimeMs)]
    /\ UNCHANGED pageVars
    /\ UNCHANGED dataVars

SpecCountdown == InitCountdown /\ [][ComputeCountdown]_vars

\* Hours, minutes and seconds of a number of seconds.
HoursMinutesSeconds(n) == <<n \div 3600, (n % 3600) \div 60, n % 60>>
\* A field of the display: two digits below 100, three from 100 to 999.
TwoDigits(n) ==
    IF n < 100 THEN DecimalDigits[(n \div 10) + 1] \o DecimalDigits[(n % 10) + 1]
    ELSE DecimalDigits[(n \div 100) + 1] \o DecimalDigits[((n \div 10) % 10) + 1]
            \o DecimalDigits[(n % 10) + 1]
Display(hms) == TwoDigits(hms[1]) \o ":" \o TwoDigits(hms[2]) \o ":" \o TwoDigits(hms[3])

\* C12: a computed countdown shows remaining + 1 seconds as hours, minutes
\* and seconds, remaining being the whole number of seconds with
\* remaining * 1000 <= target - now < (remaining + 1) * 1000.
C12_CountdownShown ==
    (probe.kind = "countdown" /\ probe.countdown # "") =>
        \E remaining \in 0..((MaxProbeMinutes + 1) * 60) :
            /\ remaining * 1000 <= probe.targetTimeMs - probe.currentTimeMs
            /\ probe.targetTimeMs - probe.currentTimeMs < (remaining + 1) * 1000
            /\ probe.countdown = Display(HoursMinutesSeconds(remaining + 1))

\* A countdown over more than an hour, computed from a clock sample that is
\* not on a whole second.
C12_Witness ==
    /\ probe.kind = "countdown" /\ probe.countdown # ""
    /\ probe.targetTimeMs - probe.currentTimeMs > 60 * 60 * 1000
    /\ (probe.targetTimeMs - probe.currentTimeMs) % 1000 # 0
    /\ \E m, sec \in 0..59 : probe.countdown = Display(<<1, m, sec>>)

(***************************************************************************)
(* lib/prayer-data.ts on its own: the bundled year files, their            *)
(* validation, the two caches, the lookups and the timeline builder.       *)
(* A date string is a day number; year y holds the dates                   *)
(* (y-1)*DaysPerYear+1 .. y*DaysPerYear.  A JSON time value is a number    *)
(* of units for a well-formed "HH:MM", Malformed for anything else, and    *)
(* Absent for a key that is missing.                                       *)
(***************************************************************************)
MaxYear == 3
DaysPerYear == 2
\* 2025 and 2026.
SupportedYears == {1, 2}
isSupportedYear(year) == year \in SupportedYears
YearOf(dateString) == ((dateString - 1) \div DaysPerYear) + 1
DateOf(year, day) == (year - 1) * DaysPerYear + day
ProbeDates == 1..(MaxYear * DaysPerYear)

Malformed == -2
timeStringSchema(v) == v \in 0..(DayUnits - 1)
OptionalTimeString(v) == v = Absent \/ timeStringSchema(v)

\* z.object(...) accepts an entry whose listed keys are well-formed, and its
\* output holds the listed keys only.
athanEntrySchema(e) ==
    \A k \in {"fajr", "sunrise", "dhuhr", "asr", "maghrib", "isha"} : timeStringSchema(e[k])
iqamahEntrySchema(e) ==
    /\ \A k \in {"fajr", "dhuhr", "asr", "isha"} : timeStringSchema(e[k])
    /\ OptionalTimeString(e.jumuah1)
    /\ OptionalTimeString(e.jumuah2)

\* An output that keeps the keys the schema does not list.
ParseIqamahEntryKeepingKeys(e) ==
    [date |-> e.date,
     entry |-> [found |-> TRUE, fajr |-> e.fajr, dhuhr |-> e.dhuhr, asr |-> e.asr,
                isha |-> e.isha, jumuah1 |-> e.jumuah1, jumuah2 |-> e.jumuah2,
                sunrise |-> e.sunrise]]

ParseAthanEntry(e) ==
    [date |-> e.date,
     entry |-> AthanEntry(e.fajr, e.sunrise, e.dhuhr, e.asr, e.maghrib, e.isha)]
ParseIqamahEntry(e) ==
    [date |-> e.date,
     entry |-> IqamahEntry(e.fajr, e.dhuhr, e.asr, e.isha, e.jumuah1, e.jumuah2)]

\* A validation that drops the entries that fail and keeps the rest.
validateAthanDataPerEntry(data) ==
    [success |-> TRUE,
     data |-> SelectSeq([i \in DOMAIN data |-> ParseAthanEntry(data[i])],
                        LAMBDA x : athanEntrySchema(x.entry))]

\* athanYearSchema.safeParse / iqamahYearSchema.safeParse.
validateAthanData(data) ==
    IF \A i \in DOMAIN data : athanEntrySchema(data[i])
    THEN [success |-> TRUE, data |-> [i \in DOMAIN data |-> ParseAthanEntry(data[i])]]
    ELSE [success |-> FALSE, data |-> << >>]
validateIqamahData(data) ==
    IF \A i \in DOMAIN data : iqamahEntrySchema(data[i])
    THEN [success |-> TRUE, data |-> [i \in DOMAIN data |-> ParseIqamahEntry(data[i])]]
    ELSE [success |-> FALSE, data |-> << >>]

\* Map.prototype.set.
MapSet(map, key, value) ==
    [k \in (DOMAIN map) \cup {key} |-> IF k = key THEN value ELSE map[k]]

Thrown(cache) == [threw |-> TRUE, data |-> << >>, cache |-> cache]
Returned(data, cache) == [threw |-> FALSE, data |-> data, cache |-> cache]

\* validatedAthanCache.set(year, result.data); return result.data -- or the
\* throw when the validation failed.
Validated(result, cache, year) ==
    IF ~result.success THEN Thrown(cache)
    ELSE Returned(result.data, MapSet(cache, year, result.data))

\* A load that stores an empty list in the cache.
getAthanDataCachingNothing(year) ==
    IF ~isSupportedYear(year) THEN Thrown(validatedAthanCache)
    ELSE IF year \in DOMAIN validatedAthanCache
    THEN Returned(validatedAthanCache[year], validatedAthanCache)
    ELSE IF ~validateAthanData(athanDataByYear[year]).success THEN Thrown(validatedAthanCache)
    ELSE Returned(validateAthanData(athanDataByYear[year]).data,
                  MapSet(validatedAthanCache, year, << >>))

\* getAthanData / getIqamahData: what the call throws or returns, and the
\* cache it leaves.
getAthanData(year) ==
    IF ~isSupportedYear(year) THEN Thrown(validatedAthanCache)
    ELSE IF year \in DOMAIN validatedAthanCache
    THEN Returned(validatedAthanCache[year], validatedAthanCache)
    ELSE Validated(validateAthanData(athanDataByYear[year]), validatedAthanCache, year)
getIqamahData(year) ==
    IF ~isSupportedYear(year) THEN Thrown(validatedIqamahCache)
    ELSE IF year \in DOMAIN validatedIqamahCache
    THEN Returned(validatedIqamahCache[year], validatedIqamahCache)
    ELSE Validated(validateIqamahData(iqamahDataByYear[year]), validatedIqamahCache, year)

\* data.find((entry) => entry.date === dateString): the first match, or
\* undefined.
RECURSIVE FindEntry(_, _, _)
FindEntry(data, dateString, notFound) ==
    IF data = << >> THEN notFound
    ELSE IF Head(data).date = dateString THEN Head(data).entry
    ELSE FindEntry(Tail(data), dateString, notFound)

\* A lookup that lets the load's error through.
LookupAthanUncaught(loaded, dateString) ==
    [threw |-> loaded.threw,
     entry |-> IF loaded.threw THEN NoAthan ELSE FindEntry(loaded.data, dateString, NoAthan)]

\* findAthanByDate / findIqamahByDate on the year files: the catch turns a
\* throw into undefined.
LookupAthan(loaded, dateString) ==
    [threw |-> FALSE,
     entry |-> IF loaded.threw THEN NoAthan ELSE FindEntry(loaded.data, dateString, NoAthan)]
LookupIqamah(loaded, dateString) ==
    [threw |-> FALSE,
     entry |-> IF loaded.threw THEN NoIqamah ELSE FindEntry(loaded.data, dateString, NoIqamah)]

\* The JSON objects of the year files.
JsonAthan(date, e) ==
    [date |-> date, fajr |-> e.fajr, sunrise |-> e.sunrise, dhuhr |-> e.dhuhr,
     asr |-> e.asr, maghrib |-> e.maghrib, isha |-> e.isha]
JsonIqamah(date, e, sunrise) ==
    [date |-> date, fajr |-> e.fajr, dhuhr |-> e.dhuhr, asr |-> e.asr, isha |-> e.isha,
     jumuah1 |-> e.jumuah1, jumuah2 |-> e.jumuah2, sunrise |-> sunrise]

\* A Friday record with one congregation only.
Jumuah1OnlyIqamah == IqamahEntry(HHMM(6,45), HHMM(13,0), HHMM(15,30), HHMM(19,0), HHMM(12,45), Absent)
\* Entries that fail validation.
MalformedAthan == AthanEntry(Malformed, HHMM(4,50), HHMM(13,5), HHMM(17,30), HHMM(21,20), HHMM(23,0))
MalformedIqamah == IqamahEntry(HHMM(3,30), HHMM(13,30), HHMM(18,0), HHMM(23,50), Malformed, Absent)

\* The year files the model is run on.  The first supported year comes in
\* every variant: whole, with the second date missing, with an entry that
\* fails validation; the iqamah file's first date is a weekday, a Friday, a
\* Friday with one congregation, a record with jumuah2 only, or a weekday
\* that carries a key the schema does not list.  The second supported year
\* holds its first date only.
AthanFiles(year) ==
    IF year = 1
    THEN { <<JsonAthan(DateOf(year, 1), WeekdayAthan), JsonAthan(DateOf(year, 2), LateAthan)>>,
           <<JsonAthan(DateOf(year, 1), WeekdayAthan)>>,
           <<JsonAthan(DateOf(year, 1), WeekdayAthan), JsonAthan(DateOf(year, 2), MalformedAthan)>> }
    ELSE { <<JsonAthan(DateOf(year, 1), TightAthan)>> }
FirstDateIqamah ==
    { [e |-> WeekdayIqamah, sunrise |-> Absent], [e |-> FridayIqamah, sunrise |-> Absent],
      [e |-> Jumuah1OnlyIqamah, sunrise |-> Absent], [e |-> Jumuah2OnlyIqamah, sunrise |-> Absent],
      [e |-> WeekdayIqamah, sunrise |-> HHMM(7,55)] }
IqamahFiles(year) ==
    IF year = 1
    THEN { <<JsonIqamah(DateOf(year, 1), first.e, first.sunrise),
             JsonIqamah(DateOf(year, 2), second, Absent)>> :
           first \in FirstDateIqamah, second \in {LateIqamah} }
    ELSE { <<JsonIqamah(DateOf(year, 1), FridayIqamah, Absent)>>,
           <<JsonIqamah(DateOf(year, 1), MalformedIqamah, Absent)>> }

NoTimeline == [date |-> 0, legs |-> EmptyLegs]
NoCall ==
    [kind |-> "data", call |-> "none", year |-> 0, date |-> 0, threw |-> FALSE, data |-> << >>,
     athanTimes |-> NoAthan, iqamahTimes |-> NoIqamah, timeline |-> NoTimeline,
     earlier |-> NoTimeline]

InitData ==
    /\ PageUnused
    /\ probe = NoCall
    /\ athanDataByYear \in {[y \in SupportedYears |-> IF y = 1 THEN f1 ELSE f2] :
                            f1 \in AthanFiles(1), f2 \in AthanFiles(2)}
    /\ iqamahDataByYear \in {[y \in SupportedYears |-> IF y = 1 THEN f1 ELSE f2] :
                             f1 \in IqamahFiles(1), f2 \in IqamahFiles(2)}
    /\ validatedAthanCache = << >>
    /\ validatedIqamahCache = << >>

\* A call of getAthanData / getIqamahData from outside the module.
LoadCalled(call, year, loaded) ==
    [NoCall EXCEPT !.call = call, !.year = year, !.threw = loaded.threw, !.data = loaded.data,
                   !.earlier = probe.earlier]
AthanLoaded(year, loaded) ==
    /\ probe' = LoadCalled("getAthanData", year, loaded)
    /\ validatedAthanCache' = loaded.cache
IqamahLoaded(year, loaded) ==
    /\ probe' = LoadCalled("getIqamahData", year, loaded)
    /\ validatedIqamahCache' = loaded.cache
CallGetAthanData(year) ==
    /\ probe.kind = "data"
    /\ AthanLoaded(year, getAthanData(year))
    /\ UNCHANGED <<athanDataByYear, iqamahDataByYear, validatedIqamahCache>>
    /\ UNCHANGED pageVars
CallGetIqamahData(year) ==
    /\ probe.kind = "data"
    /\ IqamahLoaded(year, getIqamahData(year))
    /\ UNCHANGED <<athanDataByYear, iqamahDataByYear, validatedAthanCache>>
    /\ UNCHANGED pageVars

\* A call of findAthanByDate / findIqamahByDate from outside the module.
AthanLookedUp(dateString, loaded, found) ==
    /\ probe' = [NoCall EXCEPT !.call = "findAthanByDate", !.date = dateString,
                     !.threw = found.threw, !.athanTimes = found.entry,
                     !.earlier = probe.earlier]
    /\ validatedAthanCache' = loaded.cache
IqamahLookedUp(dateString, loaded, found) ==
    /\ probe' = [NoCall EXCEPT !.call = "findIqamahByDate", !.date = dateString,
                     !.threw = found.threw, !.iqamahTimes = found.entry,
                     !.earlier = probe.earlier]
    /\ validatedIqamahCache' = loaded.cache
AthanLookup(dateString, loaded) ==
    AthanLookedUp(dateString, loaded, LookupAthan(loaded, dateString))
IqamahLookup(dateString, loaded) ==
    IqamahLookedUp(dateString, loaded, LookupIqamah(loaded, dateString))
CallFindAthanByDate(dateString) ==
    /\ probe.kind = "data"
    /\ AthanLookup(dateString, getAthanData(YearOf(dateString)))
    /\ UNCHANGED <<athanDataByYear, iqamahDataByYear, validatedIqamahCache>>
    /\ UNCHANGED pageVars
CallFindIqamahByDate(dateString) ==
    /\ probe.kind = "data"
    /\ IqamahLookup(dateString, getIqamahData(YearOf(dateString)))
    /\ UNCHANGED <<athanDataByYear, iqamahDataByYear, validatedAthanCache>>
    /\ UNCHANGED pageVars

\* getCombinedPrayerTimes on the year files: both lookups are made before
\* the athan record is looked at.  The timeline of one call is kept aside
\* (earlier) for comparison with later calls.
Returning(dateString, athanTimes, iqamahTimes, timeline, remember) ==
    [NoCall EXCEPT !.call = "getCombinedPrayerTimes", !.date = dateString,
                   !.athanTimes = athanTimes, !.iqamahTimes = iqamahTimes,
                   !.timeline = timeline,
                   !.earlier = IF remember THEN timeline ELSE probe.earlier]
Built(dateString, athanFound, iqamahFound, remember) ==
    IF athanFound.threw \/ iqamahFound.threw
    THEN [NoCall EXCEPT !.call = "getCombinedPrayerTimes", !.date = dateString,
                        !.threw = TRUE, !.earlier = probe.earlier]
    ELSE Returning(dateString, athanFound.entry, iqamahFound.entry,
                   CombineRecords(dateString, athanFound.entry, iqamahFound.entry), remember)
Combined(dateString, athanLoaded, iqamahLoaded, remember) ==
    /\ probe' = Built(dateString, LookupAthan(athanLoaded, dateString),
                      LookupIqamah(iqamahLoaded, dateString), remember)
    /\ validatedAthanCache' = athanLoaded.cache
    /\ validatedIqamahCache' = iqamahLoaded.cache
CallGetCombinedPrayerTimes(dateString, remember) ==
    /\ probe.kind = "data"
    /\ remember => probe.earlier = NoTimeline
    /\ Combined(dateString, getAthanData(YearOf(dateString)),
                getIqamahData(YearOf(dateString)), remember)
    /\ UNCHANGED <<athanDataByYear, iqamahDataByYear>>
    /\ UNCHANGED pageVars

NextData ==
    \/ \E year \in 1..MaxYear : CallGetAthanData(year)
    \/ \E year \in 1..MaxYear : CallGetIqamahData(year)
    \/ \E dateString \in ProbeDates : CallFindAthanByDate(dateString)
    \/ \E dateString \in ProbeDates : CallFindIqamahByDate(dateString)
    \/ \E dateString \in ProbeDates, remember \in BOOLEAN :
           CallGetCombinedPrayerTimes(dateString, remember)

SpecData == InitData /\ [][NextData]_vars

\* The timeline in milliseconds, as the page parses it.
ParsedTimeline == parsePrayerTimesToMs(probe.timeline, probe.date + 1)
BuilderCalled == probe.kind = "data" /\ probe.call = "getCombinedPrayerTimes" /\ ~probe.threw

\* The builder found both records of the date.
BothRecordsFound == BuilderCalled /\ probe.athanTimes.found /\ probe.iqamahTimes.found

\* C13: Friday invariant of the timeline builder: whenever the iqamah record
\* of the date carries jumuah1, the built timeline has no iqamah leg for
\* dhuhr, jumuah1's athan leg equals dhuhr's athan leg, and jumuah2 has no
\* athan leg.
C13_FridayInvariant ==
    (BothRecordsFound /\ probe.iqamahTimes.jumuah1 # Absent) =>
        /\ probe.timeline.legs["dhuhr"].iqamah = Absent
        /\ probe.timeline.legs["jumuah1"].athan = probe.timeline.legs["dhuhr"].athan
        /\ probe.timeline.legs["jumuah2"].athan = Absent

\* A Friday with two congregations has been built.
C13_Witness ==
    /\ BothRecordsFound
    /\ probe.iqamahTimes.jumuah1 # Absent
    /\ probe.iqamahTimes.dhuhr # Absent
    /\ probe.timeline.legs["jumuah1"].athan = probe.athanTimes.dhuhr
    /\ probe.timeline.legs["jumuah1"].iqamah = probe.iqamahTimes.jumuah1
    /\ probe.timeline.legs["jumuah2"].iqamah # Absent

\* C14: when the iqamah record of the date carries no jumuah1, the built
\* timeline has both legs of jumuah1 and both legs of jumuah2 absent and
\* dhuhr carries its own athan and its own iqamah; also when the record
\* carries jumuah2 without jumuah1.
C14_NoFridayMode ==
    (BothRecordsFound /\ probe.iqamahTimes.jumuah1 = Absent) =>
        /\ probe.timeline.legs["jumuah1"] = [athan |-> Absent, iqamah |-> Absent]
        /\ probe.timeline.legs["jumuah2"] = [athan |-> Absent, iqamah |-> Absent]
        /\ probe.timeline.legs["dhuhr"].athan = probe.athanTimes.dhuhr
        /\ probe.timeline.legs["dhuhr"].iqamah = probe.iqamahTimes.dhuhr

\* C15: in every timeline the builder returns, maghrib's iqamah leg, when
\* present, equals maghrib's athan leg, and sunrise has no iqamah leg.
C15_MaghribAndSunrise ==
    BuilderCalled =>
        /\ probe.timeline.legs["maghrib"].iqamah # Absent =>
               probe.timeline.legs["maghrib"].iqamah = probe.timeline.legs["maghrib"].athan
        /\ probe.timeline.legs["sunrise"].iqamah = Absent

\* A timeline has been built from a year file whose iqamah entry of the
\* date carries a sunrise key.
C15_Witness ==
    /\ BothRecordsFound
    /\ probe.timeline.legs["maghrib"].iqamah # Absent
    /\ probe.timeline.legs["sunrise"].athan # Absent
    /\ \E i \in DOMAIN iqamahDataByYear[YearOf(probe.date)] :
           /\ iqamahDataByYear[YearOf(probe.date)][i].date = probe.date
           /\ iqamahDataByYear[YearOf(probe.date)][i].sunrise # Absent

\* The year files hold an entry for the date.
HasAthanEntry(dateString) ==
    /\ isSupportedYear(YearOf(dateString))
    /\ \E i \in DOMAIN athanDataByYear[YearOf(dateString)] :
           athanDataByYear[YearOf(dateString)][i].date = dateString
HasIqamahEntry(dateString) ==
    /\ isSupportedYear(YearOf(dateString))
    /\ \E i \in DOMAIN iqamahDataByYear[YearOf(dateString)] :
           iqamahDataByYear[YearOf(dateString)][i].date = dateString
NoRecord(dateString) == ~HasAthanEntry(dateString) /\ ~HasIqamahEntry(dateString)

\* Instants of the date and of the next one.
InstantsAround(dateString) ==
    {dateString * DayUnits + u : u \in {0, HHMM(6,30), HHMM(12,0), DayUnits - 1, DayUnits}}

\* C16: for a date with no record (year not supported, or date missing from
\* the files of a supported year) the builder returns, without raising, a
\* timeline whose legs are all absent; on that timeline the next prayer is
\* fajr and there is no previous prayer, at every instant.
C16_NoRecordTimeline ==
    (probe.kind = "data" /\ probe.call = "getCombinedPrayerTimes" /\ NoRecord(probe.date)) =>
        /\ ~probe.threw
        /\ probe.timeline.date = probe.date
        /\ probe.timeline.legs = EmptyLegs
        /\ \A t \in InstantsAround(probe.date) :
               /\ getNextPrayerMs(ParsedTimeline, t) = "fajr"
               /\ getPreviousPrayerMs(ParsedTimeline, t) = NoPrevious

\* The builder has been asked for a date missing from a supported year and
\* then for a date of a year that is not supported.
C16_Witness ==
    /\ probe.kind = "data" /\ probe.call = "getCombinedPrayerTimes"
    /\ ~isSupportedYear(YearOf(probe.date))
    /\ probe.timeline.legs = EmptyLegs
    /\ probe.earlier # NoTimeline
    /\ isSupportedYear(YearOf(probe.earlier.date))
    /\ NoRecord(probe.earlier.date)
    /\ probe.earlier.legs = EmptyLegs

\* C17: the builder is idempotent and deterministic: a call returns the
\* timeline an earlier call with the same date returned, whatever calls
\* were made in between.
C17_SameTimeline ==
    (BuilderCalled /\ probe.earlier # NoTimeline /\ probe.earlier.date = probe.date) =>
        probe.timeline = probe.earlier

\* A timeline that is not empty has been returned a second time, with both
\* years loaded by then.
C17_Witness ==
    /\ BuilderCalled
    /\ probe.earlier # NoTimeline
    /\ probe.earlier.date = probe.date
    /\ probe.timeline = probe.earlier
    /\ probe.timeline.legs # EmptyLegs
    /\ DOMAIN validatedAthanCache = SupportedYears

\* Every entry of the year's file passes its schema.
WholeAthanYearValid(year) ==
    \A i \in DOMAIN athanDataByYear[year] : athanEntrySchema(athanDataByYear[year][i])
WholeIqamahYearValid(year) ==
    \A i \in DOMAIN iqamahDataByYear[year] : iqamahEntrySchema(iqamahDataByYear[year][i])
AthanYearRejected(year) == isSupportedYear(year) /\ ~WholeAthanYearValid(year)
IqamahYearRejected(year) == isSupportedYear(year) /\ ~WholeIqamahYearValid(year)

\* C18: year data is accepted or rejected wholesale.  A cache holds a year
\* only if every entry of that year's file passed validation, and then it
\* holds all of them; when an entry of a year's athan (iqamah) file fails
\* validation, loading that year throws, the lookups and the builder find
\* no athan (iqamah) entry of that year, and the year is not cached; a load
\* that returns hands out the cached list of the year.
C18_WholesaleValidation ==
    /\ \A year \in DOMAIN validatedAthanCache :
           /\ WholeAthanYearValid(year)
           /\ Len(validatedAthanCache[year]) = Len(athanDataByYear[year])
    /\ \A year \in DOMAIN validatedIqamahCache :
           /\ WholeIqamahYearValid(year)
           /\ Len(validatedIqamahCache[year]) = Len(iqamahDataByYear[year])
    /\ \A year \in SupportedYears :
           /\ ~WholeAthanYearValid(year) => year \notin DOMAIN validatedAthanCache
           /\ ~WholeIqamahYearValid(year) => year \notin DOMAIN validatedIqamahCache
    /\ (probe.kind = "data" /\ probe.call = "getAthanData") =>
           /\ AthanYearRejected(probe.year) => (probe.threw /\ probe.data = << >>)
           /\ ~probe.threw => probe.data = validatedAthanCache[probe.year]
    /\ (probe.kind = "data" /\ probe.call = "getIqamahData") =>
           /\ IqamahYearRejected(probe.year) => (probe.threw /\ probe.data = << >>)
           /\ ~probe.threw => probe.data = validatedIqamahCache[probe.year]
    /\ (probe.kind = "data" /\ probe.call \in {"findAthanByDate", "getCombinedPrayerTimes"}
          /\ AthanYearRejected(YearOf(probe.date))) => ~probe.athanTimes.found
    /\ (probe.kind = "data" /\ probe.call \in {"findIqamahByDate", "getCombinedPrayerTimes"}
          /\ IqamahYearRejected(YearOf(probe.date))) => ~probe.iqamahTimes.found
    /\ (BuilderCalled /\ AthanYearRejected(YearOf(probe.date))) =>
           probe.timeline.legs = EmptyLegs

\* The load of a year whose file holds one entry that fails validation and
\* one that passes has thrown, after the other year was loaded and cached.
C18_Witness ==
    /\ probe.kind = "data" /\ probe.call = "getAthanData"
    /\ AthanYearRejected(probe.year)
    /\ \E i \in DOMAIN athanDataByYear[probe.year] : athanEntrySchema(athanDataByYear[probe.year][i])
    /\ probe.threw
    /\ DOMAIN validatedAthanCache = SupportedYears \ {probe.year}
    /\ validatedIqamahCache # << >>

\* The page after an effect run whose try block threw: the run completed
\* (it has set the countdown and returned its cleanup), the page is Idle and
\* no expiry timer is armed.
FailedSafe ==
    /\ mounted => (hasCleanup /\ countdown # "" /\ depTime = currentTime)
    /\ ~showPrayerNow
    /\ prayerNowTimeoutRef = NoHandle
    /\ activeTimeouts = {}

\* A tick after such a run is evaluated like any other: the effect runs on
\* the new instant, and where a prayer has started and nothing throws, the
\* page is Holding exactly if the instant lies in that prayer's window.
TickAfterError ==
    (caughtError /\ mounted /\ currentTime' # currentTime) =>
        /\ depTime' = currentTime'
        /\ (fault = "none" /\ previousPrayerMs'.found /\ HasTimes(parsedTimes', nextPrayerKey')) =>
               /\ ~caughtError'
               /\ showPrayerNow' = isWithinPrayerHoldingPeriodMs(previousPrayerMs'.iqamahMs,
                                       currentTime', previousPrayerMs'.prayer)

\* C19: when the holding evaluation throws during a tick, the catch block
\* takes the error, the page ends in Idle with no expiry timer armed, and
\* later ticks are still evaluated.
C19_FailSafeToIdle == [](caughtError => FailedSafe) /\ [][TickAfterError]_vars

\* An effect run threw while the page was Holding.
C19_Witness ==
    /\ caughtError /\ mounted
    /\ depShow
    /\ ~showPrayerNow
    /\ previousPrayerMs.found
    /\ isWithinPrayerHoldingPeriodMs(previousPrayerMs.iqamahMs, currentTime, previousPrayerMs.prayer)

\* A manual change of the simulated time.
ManualChange == setSimulatedTimeHandler \/ jumpForward \/ reset

\* The only timer outstanding after the step is one the effect armed at the
\* new instant, for the prayer whose window that instant lies in.
OnlyFreshTimer ==
    /\ Cardinality(activeTimeouts') <= 1
    /\ activeTimeouts' # {} =>
           /\ activeTimeouts' = {prayerNowTimeoutRef'}
           /\ depTime' = currentTime'
           /\ ~depShow' /\ showPrayerNow'
           /\ previousPrayerMs'.found
           /\ isWithinPrayerHoldingPeriodMs(previousPrayerMs'.iqamahMs, currentTime',
                                            previousPrayerMs'.prayer)

\* The step cancelled the timers of the old instant before it recomputed the
\* holding state: what it leaves is the effect run on a page without timers.
CancelledBeforeRecompute ==
    activeTimeouts # {} =>
        /\ Cleanup(Render(calendar, [Hook EXCEPT !.currentTime = currentTime'])).activeTimeouts = {}
        /\ Hook' = Effect(Cleanup(Render(calendar, [Hook EXCEPT !.currentTime = currentTime'])))

\* C20: a manual change of the simulated time (set, jump or reset) cancels
\* every expiry timer armed under the old instant before the holding state
\* is recomputed, so that no timer armed before the change is left to fire
\* after it.
C20_ManualChangeCancels ==
    [][ManualChange => (CancelledBeforeRecompute /\ OnlyFreshTimer)]_vars

\* A manual change has landed inside a holding window and the effect has
\* armed the timer of the new instant.
C20_Witness ==
    /\ mounted /\ isSimulating
    /\ simulatedTimeRef = currentTime
    /\ depTime = currentTime
    /\ showPrayerNow /\ ~depShow
    /\ activeTimeouts = {prayerNowTimeoutRef}

(***************************************************************************)
(* hooks/use-simulated-time.ts on its own, in milliseconds.  clock holds   *)
(* the hook's state (currentTime, isHydrated, isSimulating, speed), its    *)
(* refs, the delay of the interval the timer effect last installed, and    *)
(* realNow, the value Date.now() returns.  The real clock does not run     *)
(* backwards.  The interval fires at any moment: its phase is arbitrary    *)
(* with respect to the manual operations.                                  *)
(***************************************************************************)
MaxElapsedMs == 1500
MaxSimMs == 64000

\* Date.now() when the hook is constructed: far more than the guard window after 0.
RealStart == 1000
RealSteps == {499, 500}
GuardWindowMs == 500
MinInterval == 16
MaxSpeed == 3600

SimulatedTimes == {2000, 61000}
SpeedInputs == {0, 1, 3, 63, 3600, 5000}
ClockJumpMinutes == {-1, 1}
InSimRange(t) == t \in 0..MaxSimMs

Max2(a, b) == IF a >= b THEN a ELSE b
Min2(a, b) == IF a <= b THEN a ELSE b

\* A callback that samples the real clock in every mode.
tickAlwaysRealTime(ts) == [ts EXCEPT !.currentTime = ts.realNow]

\* A callback without the guard window.
tickUnguarded(ts) ==
    IF ts.isProduction
    THEN [ts EXCEPT !.currentTime = ts.realNow]
    ELSE IF ts.isSimulatingRef /\ ts.simulatedTimeRef # Null
         THEN [ts EXCEPT !.simulatedTimeRef = ts.simulatedTimeRef + 1000,
                         !.currentTime = ts.simulatedTimeRef + 1000]
         ELSE [ts EXCEPT !.currentTime = ts.realNow]

\* A callback that scales its step by the speed multiplier.
tickScaledBySpeed(ts) ==
    IF ts.isProduction
    THEN [ts EXCEPT !.currentTime = ts.realNow]
    ELSE IF ts.isSimulatingRef /\ ts.simulatedTimeRef # Null
         THEN IF ts.realNow - ts.lastManualSetRef < GuardWindowMs
              THEN ts
              ELSE [ts EXCEPT !.simulatedTimeRef = ts.simulatedTimeRef + 1000 * ts.speedRef,
                              !.currentTime = ts.simulatedTimeRef + 1000 * ts.speedRef]
         ELSE [ts EXCEPT !.currentTime = ts.realNow]

\* tick: one run of the interval callback.
tick(ts) ==
    IF ts.isProduction
    THEN [ts EXCEPT !.currentTime = ts.realNow]
    ELSE IF ts.isSimulatingRef /\ ts.simulatedTimeRef # Null
         THEN IF ts.realNow - ts.lastManualSetRef < GuardWindowMs
              THEN ts
              ELSE [ts EXCEPT !.simulatedTimeRef = ts.simulatedTimeRef + 1000,
                              !.currentTime = ts.simulatedTimeRef + 1000]
         ELSE [ts EXCEPT !.currentTime = ts.realNow]

\* A delay without the 16 ms floor.
TickIntervalUnclamped(ts) ==
    IF ~ts.isProduction /\ ts.isSimulating
    THEN 1000 \div ts.speed
    ELSE 1000

\* The delay handed to setInterval.
TickInterval(ts) ==
    IF ~ts.isProduction /\ ts.isSimulating
    THEN Max2(MinInterval, 1000 \div ts.speed)
    ELSE 1000

\* One run of the timer effect: hydrated, the initial tick, a new interval.
TimerEffect(ts) ==
    [tick(ts) EXCEPT !.isHydrated = TRUE, !.interval = TickInterval(ts)]

TimerDeps(ts) == <<ts.isProduction, ts.isSimulating, ts.speed>>

\* The render after a handler: the effect runs again when a dependency changed
\* (its cleanup clears the old interval).
ClockRender(before, after) ==
    IF TimerDeps(after) # TimerDeps(before) THEN TimerEffect(after) ELSE after

SetSimulatedTimeOf(ts, time) ==
    IF ts.isProduction THEN ts
    ELSE ClockRender(ts, [ts EXCEPT !.simulatedTimeRef = time,
                                    !.isSimulatingRef = TRUE,
                                    !.lastManualSetRef = ts.realNow,
                                    !.currentTime = time,
                                    !.isSimulating = TRUE])

\* A setSpeed that stores its argument as it comes.
SetSpeedUnclamped(ts, multiplier) ==
    IF ts.isProduction THEN ts
    ELSE ClockRender(ts, [ts EXCEPT !.speedRef = multiplier, !.speed = multiplier])

\* A setSpeed without the production return.
SetSpeedInAnyBuild(ts, multiplier) ==
    ClockRender(ts, [ts EXCEPT !.speedRef = Max2(1, Min2(multiplier, MaxSpeed)),
                               !.speed = Max2(1, Min2(multiplier, MaxSpeed))])

SetSpeedOf(ts, multiplier) ==
    IF ts.isProduction THEN ts
    ELSE ClockRender(ts, [ts EXCEPT !.speedRef = Max2(1, Min2(multiplier, MaxSpeed)),
                                    !.speed = Max2(1, Min2(multiplier, MaxSpeed))])

JumpBaseTime(ts) == IF ts.simulatedTimeRef # Null THEN ts.simulatedTimeRef ELSE ts.realNow

JumpForwardOf(ts, minutes) ==
    IF ts.isProduction THEN ts
    ELSE ClockRender(ts, [ts EXCEPT !.simulatedTimeRef = JumpBaseTime(ts) + minutes * 60 * 1000,
                                    !.isSimulatingRef = TRUE,
                                    !.lastManualSetRef = ts.realNow,
                                    !.currentTime = JumpBaseTime(ts) + minutes * 60 * 1000,
                                    !.isSimulating = TRUE])

ResetOf(ts) ==
    IF ts.isProduction THEN ts
    ELSE ClockRender(ts, [ts EXCEPT !.simulatedTimeRef = Null,
                                    !.isSimulatingRef = FALSE,
                                    !.speedRef = 1,
                                    !.isSimulating = FALSE,
                                    !.speed = 1,
                                    !.currentTime = ts.realNow])

\* The hook after construction and its first effect run.
Mounted(production) ==
    TimerEffect([kind |-> "clock", isProduction |-> production,
                 currentTime |-> RealStart, isHydrated |-> FALSE,
                 isSimulating |-> FALSE, speed |-> 1,
                 simulatedTimeRef |-> Null, speedRef |-> 1,
                 isSimulatingRef |-> FALSE, lastManualSetRef |-> 0,
                 realNow |-> RealStart, interval |-> 0])

\* What the hook returns.
TimeSimulation(ts) ==
    [currentTime |-> ts.currentTime, isHydrated |-> ts.isHydrated,
     isSimulating |-> ~ts.isProduction /\ ts.isSimulating, speed |-> ts.speed]

InitClock ==
    /\ HookUnused /\ probe = NoProbe /\ DataUnused
    /\ clock \in {Mounted(production) : production \in BOOLEAN}

ClockUsed == clock.kind = "clock"
ClockInBounds(ts) == ts.simulatedTimeRef = Null \/ InSimRange(ts.simulatedTimeRef)
ClockStep(ts) ==
    /\ ClockInBounds(ts)
    /\ clock' = ts
    /\ UNCHANGED <<hookVars, probe, dataVars>>

\* Real time passes.
ClockRealTime ==
    /\ ClockUsed
    /\ \E d \in RealSteps :
          /\ clock.realNow + d <= RealStart + MaxElapsedMs
          /\ ClockStep([clock EXCEPT !.realNow = clock.realNow + d])

\* The interval fires.
ClockTick == ClockUsed /\ ClockStep(tick(clock))

ClockSetSimulatedTime ==
    ClockUsed /\ \E time \in SimulatedTimes : ClockStep(SetSimulatedTimeOf(clock, time))

ClockSetSpeed ==
    ClockUsed /\ \E multiplier \in SpeedInputs : ClockStep(SetSpeedOf(clock, multiplier))

ClockJumpForward ==
    /\ ClockUsed
    /\ \E minutes \in ClockJumpMinutes :
          /\ InSimRange(JumpBaseTime(clock) + minutes * 60 * 1000)
          /\ ClockStep(JumpForwardOf(clock, minutes))

ClockReset == ClockUsed /\ ClockStep(ResetOf(clock))

NextClock ==
    \/ ClockRealTime
    \/ ClockTick
    \/ ClockSetSimulatedTime
    \/ ClockSetSpeed
    \/ ClockJumpForward
    \/ ClockReset

SpecClock == InitClock /\ [][NextClock]_vars

(***************************************************************************)
(* Claims about the time source.                                           *)
(***************************************************************************)
Simulating == ClockUsed /\ TimeSimulation(clock).isSimulating
InGuardWindow == clock.realNow - clock.lastManualSetRef < 500

\* C21: while simulating, an interval tick that falls outside the guard window
\* advances the simulated instant (the ref and the state) by exactly 1000 ms,
\* whatever the speed.
C21_TickAdvancesOneSecond ==
    [][(ClockTick /\ Simulating /\ ~InGuardWindow)
          => /\ clock'.currentTime = clock.currentTime + 1000
             /\ clock'.simulatedTimeRef = clock.simulatedTimeRef + 1000
             /\ clock'.speed = clock.speed]_vars

\* An unsuppressed tick has run at the highest speed: 3000 is only reached by a
\* tick from a set time.
C21_Witness ==
    /\ Simulating /\ ~InGuardWindow
    /\ clock.speed = 3600
    /\ clock.currentTime = 3000

\* C22: the interval in force is max(16, floor(1000 / speed)) ms while
\* simulating in a non-production build, and 1000 ms when not simulating or in
\* production, whatever the stored speed.
C22_TickInterval ==
    ClockUsed =>
        /\ (~clock.isProduction /\ clock.isSimulating /\ 1000 \div clock.speed >= 16)
              => clock.interval = 1000 \div clock.speed
        /\ (~clock.isProduction /\ clock.isSimulating /\ 1000 \div clock.speed < 16)
              => clock.interval = 16
        /\ (clock.isProduction \/ ~clock.isSimulating) => clock.interval = 1000

\* Simulating at a speed whose quotient, 15, is below the floor.
C22_Witness ==
    /\ Simulating
    /\ clock.speed = 63
    /\ clock.interval = 16

\* Not simulating with a stored speed other than 1.
C22_StoredSpeedIgnored ==
    /\ ClockUsed /\ ~clock.isProduction /\ ~clock.isSimulating
    /\ clock.speed = 3600
    /\ clock.interval = 1000

\* The instant a manual operation asks for.
ManuallySet ==
    \/ ClockSetSimulatedTime /\ clock'.currentTime \in SimulatedTimes
    \/ ClockJumpForward
         /\ \E minutes \in ClockJumpMinutes :
               clock'.currentTime
                  = (IF clock.simulatedTimeRef = Null THEN clock.realNow
                     ELSE clock.simulatedTimeRef) + minutes * 60000
AutomaticTick == ClockTick \/ ClockSetSpeed
InstantKept ==
    /\ clock'.currentTime = clock.currentTime
    /\ clock'.simulatedTimeRef = clock.simulatedTimeRef

\* C23: a manual setSimulatedTime or jumpForward leaves the current instant at
\* exactly the value asked for, and while less than 500 ms of real time have
\* passed since then no tick (of the interval, or the initial tick of a
\* re-installed interval) changes the current instant or the simulated instant.
C23_GuardWindow ==
    [][/\ (~clock.isProduction /\ (ClockSetSimulatedTime \/ ClockJumpForward))
            => (ManuallySet /\ clock'.lastManualSetRef = clock'.realNow)
       /\ (Simulating /\ InGuardWindow /\ AutomaticTick) => InstantKept]_vars

\* 499 ms after a manual set, at the speed with the shortest interval, the
\* instant is still the one that was set.
C23_Witness ==
    /\ Simulating
    /\ clock.realNow - clock.lastManualSetRef = 499
    /\ clock.speed = 3600
    /\ clock.currentTime = 61000

ClockControl == ClockSetSimulatedTime \/ ClockSetSpeed \/ ClockJumpForward \/ ClockReset

\* C24: in production the four controls change nothing of the time source
\* (state, refs, interval), isSimulating is false throughout, both as stored
\* and as returned, and every tick sets the current instant to the real
\* clock's value at that moment.
C24_ProductionRealTime ==
    /\ []((ClockUsed /\ clock.isProduction)
             => (~clock.isSimulating /\ ~clock.isSimulatingRef
                 /\ ~TimeSimulation(clock).isSimulating))
    /\ [][(ClockUsed /\ clock.isProduction)
             => /\ ClockControl => clock' = clock
                /\ ClockTick => clock'.currentTime = clock.realNow]_vars

\* In production a tick has sampled the real clock 999 ms after the start.
C24_Witness ==
    /\ ClockUsed /\ clock.isProduction
    /\ clock.realNow = RealStart + 999
    /\ clock.currentTime = clock.realNow

\* C25: across every step of the time source (ticks and the four controls)
\* the current instant never decreases.
C25_NeverDecreases ==
    [][ClockUsed => clock'.currentTime >= clock.currentTime]_vars

\* C25, restricted to what the hook does by itself: a tick of the interval, the
\* initial tick that follows setSpeed, and the passing of real time never
\* decrease the current instant (the real clock not running backwards); only
\* setSimulatedTime, jumpForward and reset, outside production, can.
C25_TicksNeverDecrease ==
    [][(ClockUsed /\ (ClockTick \/ ClockSetSpeed \/ ClockRealTime
                        \/ (clock.isProduction /\ ClockControl)))
          => clock'.currentTime >= clock.currentTime]_vars

\* Two ticks have advanced the simulated instant from a set time.
C25_Witness ==
    /\ Simulating
    /\ clock.currentTime = 4000
    /\ clock.simulatedTimeRef = 4000

(***************************************************************************)
(* getPrayerHoldingDuration called on its own, with and without a table.   *)
(***************************************************************************)
\* The custom table of the unit test.
customDurations ==
    [fajr |-> Minutes(10), sunrise |-> Minutes(10), dhuhr |-> Minutes(20),
     jumuah1 |-> Minutes(60), jumuah2 |-> Minutes(45), asr |-> Minutes(20),
     maghrib |-> Minutes(20), isha |-> Minutes(20)]

DhuhrMinutes == {5, 20, 30}
DurationTables ==
    {DEFAULT_PRAYER_HOLDING_DURATIONS, customDurations}
       \cup {[DEFAULT_PRAYER_HOLDING_DURATIONS EXCEPT !.dhuhr = Minutes(m)] : m \in DhuhrMinutes}

\* The second argument: left out, or a table.
DurationArguments ==
    {[given |-> FALSE]} \cup {[given |-> TRUE, table |-> t] : t \in DurationTables}

UnknownNames == {"unknown", "witr", "tahajjud"}

\* The default parameter value.
DurationsParameter(durations) ==
    IF durations.given THEN durations.table ELSE DEFAULT_PRAYER_HOLDING_DURATIONS

InitHolding ==
    /\ PageUnused
    /\ DataUnused
    /\ probe \in [kind : {"holdingDuration"},
                  prayer : PrayerNames \cup UnknownNames,
                  durations : DurationArguments,
                  called : {FALSE},
                  result : {0}]

CallGetPrayerHoldingDuration ==
    /\ probe.kind = "holdingDuration" /\ ~probe.called
    /\ probe' = [probe EXCEPT
                    !.called = TRUE,
                    !.result = getPrayerHoldingDuration(probe.prayer,
                                                        DurationsParameter(probe.durations))]
    /\ UNCHANGED pageVars
    /\ UNCHANGED dataVars

SpecHolding == InitHolding /\ [][CallGetPrayerHoldingDuration]_vars

\* The table in use in a call.
TableInUse ==
    IF probe.durations.given THEN probe.durations.table
    ELSE [fajr |-> 3, sunrise |-> 0, dhuhr |-> 2, jumuah1 |-> 4,
          jumuah2 |-> 4, asr |-> 2, maghrib |-> 3, isha |-> 3]

HoldingDurationReturned == probe.kind = "holdingDuration" /\ probe.called

\* C26: the lookup returns the entry of the table in use for a known prayer
\* name, and the dhuhr entry of the table in use for an unknown name.
C26_HoldingDurationLookup ==
    HoldingDurationReturned =>
        /\ probe.prayer \in PrayerNames => probe.result = TableInUse[probe.prayer]
        /\ probe.prayer \notin PrayerNames => probe.result = TableInUse.dhuhr

\* What holds instead: an unknown name gets the dhuhr entry of the default
\* table, whatever table was passed.
C26_FallbackIsDefaultDhuhr ==
    HoldingDurationReturned =>
        /\ probe.prayer \in PrayerNames => probe.result = TableInUse[probe.prayer]
        /\ probe.prayer \notin PrayerNames => probe.result = 2

(***************************************************************************)
(* formatTimeToGo called on its own, on whole numbers of seconds.          *)
(***************************************************************************)
MaxProbeSeconds == 130
\* The arguments of the unit tests, and durations of a day and more.
LongDurations == {3599, 3600, 3661, 86399, 86400, 90061, 359999, 360000}
ProbeSeconds == 0..MaxProbeSeconds \cup LongDurations

InitFormat ==
    /\ PageUnused
    /\ DataUnused
    /\ probe \in [kind : {"format"}, seconds : ProbeSeconds,
                  called : {FALSE}, formatted : {""}]

CallFormatTimeToGo ==
    /\ probe.kind = "format" /\ ~probe.called
    /\ probe' = [probe EXCEPT !.called = TRUE,
                              !.formatted = formatTimeToGo(probe.seconds)]
    /\ UNCHANGED pageVars
    /\ UNCHANGED dataVars

SpecFormat == InitFormat /\ [][CallFormatTimeToGo]_vars

Formatted == probe.kind = "format" /\ probe.called

\* C29: for s >= 0 seconds the result is HH:MM:SS with hours = s div 3600
\* (not wrapped at 24), minutes = (s mod 3600) div 60, seconds = s mod 60, each
\* written with two digits (the hours with more when they need more), and the
\* three fields recombine to s; 0 gives 00:00:00 and 3661 gives 01:01:01.
C29_FormatTimeToGo ==
    Formatted =>
        /\ \E h \in 0..100, m \in 0..59, sec \in 0..59 :
              /\ h = probe.seconds \div 3600
              /\ m = (probe.seconds % 3600) \div 60
              /\ sec = probe.seconds % 60
              /\ h * 3600 + m * 60 + sec = probe.seconds
              /\ probe.formatted = Display(<<h, m, sec>>)
        /\ probe.seconds = 0 => probe.formatted = "00:00:00"
        /\ probe.seconds = 3661 => probe.formatted = "01:01:01"
        /\ probe.seconds = 90061 => probe.formatted = "25:01:01"

\* More than a day has been formatted.
C29_Witness ==
    /\ Formatted
    /\ probe.seconds = 90061
    /\ probe.formatted = "25:01:01"

(***************************************************************************)
(* Claims about the snapshot the page hook returns.                        *)
(***************************************************************************)
NextHasTimes == HasTimes(parsedTimes, nextPrayerKey)
CountdownDerived ==
    CountdownOf(CountdownTarget(parsedTimes, nextPrayerKey, currentTime)[1] * UnitMs,
                currentTime * UnitMs)
ModeDerived == CountdownTarget(parsedTimes, nextPrayerKey, currentTime)[2]

\* C27: in every snapshot the timeline, the next and the previous prayer, the
\* countdown string, its mode and the holding flag are those derived from the
\* snapshot's current instant; on a tick where the next prayer has no times
\* the holding flag is still the one of the current instant.
C27_SnapshotOfOneInstant ==
    mounted =>
        /\ todayPrayerTimes = getCombinedPrayerTimes(calendar, getDateString(currentTime))
        /\ nextPrayerKey = getNextPrayerMs(parsedTimes, currentTime)
        /\ previousPrayerMs = getPreviousPrayerMs(parsedTimes, currentTime)
        /\ NextHasTimes => (countdown = CountdownDerived /\ isCountingToIqamah = ModeDerived)
        /\ showPrayerNow = HoldingPredicate

\* The snapshot without its holding flag.
C27_AllButHoldingFlag ==
    mounted =>
        /\ todayPrayerTimes = getCombinedPrayerTimes(calendar, getDateString(currentTime))
        /\ nextPrayerKey = getNextPrayerMs(parsedTimes, currentTime)
        /\ previousPrayerMs = getPreviousPrayerMs(parsedTimes, currentTime)
        /\ NextHasTimes => (countdown = CountdownDerived /\ isCountingToIqamah = ModeDerived)

\* On a tick without times for the next prayer nothing is left of an earlier
\* countdown.
C27_NoStaleCountdown == (mounted /\ ~NextHasTimes) => countdown = ""

(***************************************************************************)
(* The two useMemo of the timeline on their own: probe holds the current   *)
(* instant, the memoised timeline and parsed timestamps, and memoRuns,     *)
(* the number of renders that came back with a new timeline object.  The   *)
(* timeline handed to a render is marked; a timeline that comes back       *)
(* without the mark is a new object.                                       *)
(***************************************************************************)
MaxMemoRuns == 3
MemoCalendars == {1, 4}

Marked(timeline) == [date |-> timeline.date, legs |-> timeline.legs, marked |-> TRUE]
Unmarked(timeline) == [date |-> timeline.date, legs |-> timeline.legs]
IsNewObject(timeline) == "marked" \notin DOMAIN timeline

\* The render r as the probe keeps it.
Observed(r) ==
    [r EXCEPT !.todayPrayerTimes = Unmarked(r.todayPrayerTimes),
              !.memoRuns = IF IsNewObject(r.todayPrayerTimes) THEN r.memoRuns + 1
                           ELSE r.memoRuns]

\* A render of the memos of p with the current instant t.
MemoRender(p, t) ==
    Observed(RenderTimeline(p.calendar,
                            [p EXCEPT !.currentTime = t,
                                      !.todayPrayerTimes = Marked(p.todayPrayerTimes)]))

InitMemo ==
    /\ PageUnused
    /\ DataUnused
    /\ probe \in {MemoRender([kind |-> "memo", calendar |-> c, currentTime |-> t,
                              todayPrayerTimes |-> [date |-> 0, legs |-> EmptyLegs],
                              parsedTimes |-> << >>, memoRuns |-> 0], t) :
                     c \in MemoCalendars, t \in InitInstants}

MemoUsed == probe.kind = "memo"

RenderAt(t) ==
    /\ InRange(t)
    /\ MemoRender(probe, t).memoRuns <= MaxMemoRuns
    /\ probe' = MemoRender(probe, t)
    /\ UNCHANGED pageVars
    /\ UNCHANGED dataVars

MemoTick == MemoUsed /\ RenderAt(probe.currentTime + 1)
MemoSetTime == MemoUsed /\ \E t \in SetInstants : RenderAt(t)
MemoJump ==
    MemoUsed /\ \E minutes \in JumpMinutes : RenderAt(probe.currentTime + Minutes(minutes))

NextMemo == MemoTick \/ MemoSetTime \/ MemoJump

SpecMemo == InitMemo /\ [][NextMemo]_vars

SameDateString == getDateString(probe'.currentTime) = getDateString(probe.currentTime)

\* C28: across renders whose current instant has the same date string the
\* memos do not run again and the timeline and its parsed timestamps stay as
\* they are; when the date string changes they run once; and in every
\* snapshot the timeline's date is the date string of the current instant,
\* also after a jump to another date.
C28_TimelineCachedByDate ==
    /\ [](MemoUsed => probe.todayPrayerTimes.date = getDateString(probe.currentTime))
    /\ [][MemoUsed =>
            /\ SameDateString
                  => /\ probe'.memoRuns = probe.memoRuns
                     /\ probe'.todayPrayerTimes = probe.todayPrayerTimes
                     /\ probe'.parsedTimes = probe.parsedTimes
            /\ ~SameDateString => probe'.memoRuns = probe.memoRuns + 1]_vars

\* After one change of date and a tick within the new date, the memos have
\* run twice in all.
C28_Witness ==
    /\ MemoUsed
    /\ probe.memoRuns = 2
    /\ probe.todayPrayerTimes.date = 2
    /\ probe.currentTime = 2 * DayUnits + HHMM(5, 0) + 1

DateChanges ==
    mounted /\ mounted' /\ getDateString(currentTime') # getDateString(currentTime)

\* C30: a step that changes the calendar date of the current instant leaves
\* the holding flag, the previous and the next prayer, and the countdown with
\* its mode as derived from the new date's timeline, and no timer armed
\* before the step is still outstanding after it.
C30_NothingCarriedOver ==
    [][DateChanges =>
          /\ activeTimeouts' \cap activeTimeouts = {}
          /\ showPrayerNow' = HoldingPredicate'
          /\ todayPrayerTimes'.date = getDateString(currentTime')
          /\ NextHasTimes' => (countdown' = CountdownDerived' /\ isCountingToIqamah' = ModeDerived')
          /\ nextPrayerKey' = getNextPrayerMs(parsedTimes', currentTime')
          /\ previousPrayerMs' = getPreviousPrayerMs(parsedTimes', currentTime')]_vars

\* The part about the timer alone.
C30_TimerNotCarriedOver ==
    [][DateChanges => activeTimeouts' \cap activeTimeouts = {}]_vars

(***************************************************************************)
(* More claims about the time source.                                      *)
(***************************************************************************)
\* C38: while simulating, a setSpeed call, taken together with the
\* re-creation of the interval that follows it, leaves the simulated current
\* instant as it was before the call.
C38_SetSpeedKeepsInstant ==
    [][(Simulating /\ ClockSetSpeed)
          => /\ clock'.currentTime = clock.currentTime
             /\ clock'.simulatedTimeRef = clock.simulatedTimeRef]_vars

\* What holds instead: the instant is kept inside the guard window and when
\* the clamped speed is the one already stored; otherwise the initial tick of
\* the re-created interval has advanced it by 1000 ms.
C38_SetSpeedMayTick ==
    [][(Simulating /\ ClockSetSpeed)
          => /\ (InGuardWindow \/ clock'.speed = clock.speed)
                   => clock'.currentTime = clock.currentTime
             /\ (~InGuardWindow /\ clock'.speed # clock.speed)
                   => clock'.currentTime = clock.currentTime + 1000]_vars

\* C40: outside production the speed multiplier, stored and in the ref, is
\* always in 1..3600, whatever was passed to setSpeed, and reset leaves speed
\* 1, not simulating, no simulated instant, and the current instant read
\* from the real clock.
C40_SpeedRangeAndReset ==
    /\ []((ClockUsed /\ ~clock.isProduction)
             => (clock.speed \in 1..3600 /\ clock.speedRef = clock.speed))
    /\ [][(ClockUsed /\ ~clock.isProduction /\ ClockReset)
             => /\ clock'.speed = 1 /\ clock'.speedRef = 1
                /\ ~clock'.isSimulating /\ ~clock'.isSimulatingRef
                /\ clock'.simulatedTimeRef = Null
                /\ clock'.interval = 1000
                /\ clock'.currentTime = clock'.realNow]_vars

\* setSpeed(5000) has been clamped while a simulation is running.
C40_Witness ==
    /\ Simulating
    /\ clock.speed = 3600
    /\ clock.interval = 16
    /\ clock.currentTime = 2000

(***************************************************************************)
(* The locators called on timelines: getNextPrayer and getPreviousPrayer   *)
(* on the time strings, getNextPrayerMs and getPreviousPrayerMs on the     *)
(* timestamps of the same legs (as the unit tests pair them), and the two  *)
(* memos of the page hook on the timeline as the hook parses it.           *)
(***************************************************************************)
\* The builder's timeline for each raw record, on date 1.
BuiltTimelines == {getCombinedPrayerTimes(c, 1) : c \in 1..Len(RawDays)}
BuiltInstants == {DayUnits + tod : tod \in 0..(DayUnits - 1)}

\* Timelines on which at most two prayers have legs, drawn from two times.
LegTimes == {Absent, HHMM(12,30), HHMM(13,0)}
SmallTimelines ==
    {[date |-> 1,
      legs |-> [p \in PrayerNames |->
                  IF p = a THEN la ELSE IF p = b THEN lb
                  ELSE [athan |-> Absent, iqamah |-> Absent]]] :
        a \in PrayerNames, b \in PrayerNames,
        la \in [athan : LegTimes, iqamah : LegTimes],
        lb \in [athan : LegTimes, iqamah : LegTimes]}
SmallInstants ==
    {DayUnits + tod : tod \in {HHMM(12,25), HHMM(12,30), HHMM(12,45), HHMM(13,0), HHMM(13,5)}}

\* The timestamps the unit tests pair with a timeline: an entry for every
\* prayer that has a leg, athan falling back to iqamah.
TimestampsOf(prayerTimes) ==
    [p \in {q \in PrayerNames : \/ prayerTimes.legs[q].athan # Absent
                                \/ prayerTimes.legs[q].iqamah # Absent} |->
        [athan |-> parseTimeToMs(prayerTimes.date,
                                 IF prayerTimes.legs[p].athan # Absent
                                 THEN prayerTimes.legs[p].athan
                                 ELSE prayerTimes.legs[p].iqamah),
         iqamah |-> IF prayerTimes.legs[p].iqamah # Absent
                    THEN parseTimeToMs(prayerTimes.date, prayerTimes.legs[p].iqamah)
                    ELSE Null]]

LocatorCall(prayerTimes, t) ==
    [kind |-> "locators", prayerTimes |-> prayerTimes, currentTime |-> t, called |-> FALSE,
     next |-> "", previous |-> "", nextMs |-> "", previousMs |-> "",
     snapshotNext |-> "", snapshotPrevious |-> ""]

InitLocators ==
    /\ PageUnused
    /\ DataUnused
    /\ probe \in {LocatorCall(tl, t) : tl \in BuiltTimelines, t \in BuiltInstants}
                 \cup {LocatorCall(tl, t) : tl \in SmallTimelines, t \in SmallInstants}

CallLocators ==
    /\ probe.kind = "locators" /\ ~probe.called
    /\ probe' = [probe EXCEPT
          !.called = TRUE,
          !.next = getNextPrayer(probe.prayerTimes, probe.currentTime),
          !.previous = getPreviousPrayer(probe.prayerTimes, probe.currentTime).prayer,
          !.nextMs = getNextPrayerMs(TimestampsOf(probe.prayerTimes), probe.currentTime),
          !.previousMs =
              getPreviousPrayerMs(TimestampsOf(probe.prayerTimes), probe.currentTime).prayer,
          !.snapshotNext =
              getNextPrayerMs(parsePrayerTimesToMs(probe.prayerTimes,
                                                   probe.prayerTimes.date + 1),
                              probe.currentTime),
          !.snapshotPrevious =
              getPreviousPrayerMs(parsePrayerTimesToMs(probe.prayerTimes,
                                                       probe.prayerTimes.date + 1),
                                  probe.currentTime).prayer]
    /\ UNCHANGED pageVars
    /\ UNCHANGED dataVars

SpecLocators == InitLocators /\ [][CallLocators]_vars

Located == probe.kind = "locators" /\ probe.called

\* The legs of the timeline the locators were called on.
LegOf(p) == probe.prayerTimes.legs[p]
HasLeg(p) == LegOf(p).athan # Absent \/ LegOf(p).iqamah # Absent
\* The effective start instant of a prayer with a leg.
StartOf(p) ==
    probe.prayerTimes.date * DayUnits
        + (IF LegOf(p).athan # Absent THEN LegOf(p).athan ELSE LegOf(p).iqamah)
\* The prayers whose effective start is the latest one at or before now.
LatestStarted ==
    {p \in PrayerNames :
        /\ HasLeg(p) /\ StartOf(p) <= probe.currentTime
        /\ \A q \in PrayerNames :
              (HasLeg(q) /\ StartOf(q) <= probe.currentTime) => StartOf(q) <= StartOf(p)}
CanonicalPosition(p) == CHOOSE i \in 1..Len(PRAYER_ORDER) : PRAYER_ORDER[i] = p
CanonicalFirst(S) ==
    CHOOSE p \in S : \A q \in S : CanonicalPosition(p) <= CanonicalPosition(q)

\* C33: when two prayers share the effective start instant that is the
\* latest one at or before now, the previous prayer, of getPreviousPrayerMs
\* and of getPreviousPrayer alike, is the tied prayer that comes first in
\* canonical display order.
C33_PreviousTieBreak ==
    (Located /\ Cardinality(LatestStarted) >= 2) =>
        /\ probe.previousMs = CanonicalFirst(LatestStarted)
        /\ probe.previous = CanonicalFirst(LatestStarted)

\* The part of C33 about getPreviousPrayerMs.
C33_TimestampTieBreak ==
    (Located /\ Cardinality(LatestStarted) >= 2) =>
        probe.previousMs = CanonicalFirst(LatestStarted)

\* dhuhr and jumuah1 have the same athan instant, which is still ahead.
FutureTie ==
    /\ LegOf("dhuhr").athan # Absent
    /\ LegOf("jumuah1").athan = LegOf("dhuhr").athan
    /\ probe.currentTime < StartOf("dhuhr")

\* C34: when dhuhr and jumuah1 share an athan instant that is still in the
\* future, neither the locator function nor the per-tick snapshot gives
\* jumuah1 as the next event: of the two tied prayers it is dhuhr, the first
\* in canonical display order.
C34_NextTieBreak ==
    (Located /\ FutureTie) =>
        /\ probe.nextMs # "jumuah1"
        /\ probe.next # "jumuah1"
        /\ probe.snapshotNext # "jumuah1"

\* C34 as amended: the locator function, given both prayers, returns dhuhr
\* and never jumuah1; the per-tick snapshot, whose parsed timeline leaves
\* dhuhr out when jumuah1 has an iqamah, gives jumuah1 where the locator
\* function gives dhuhr, and the locator function's result otherwise.
C34_TieBreakOfEachPath ==
    (Located /\ FutureTie) =>
        /\ probe.nextMs # "jumuah1"
        /\ probe.next # "jumuah1"
        /\ IF LegOf("jumuah1").iqamah # Absent /\ probe.nextMs = "dhuhr"
           THEN probe.snapshotNext = "jumuah1"
           ELSE probe.snapshotNext = probe.nextMs

\* A Friday morning, sunrise over: dhuhr by the function, jumuah1 on the page.
C34_Witness ==
    /\ Located /\ FutureTie
    /\ LegOf("fajr").athan # Absent
    /\ probe.nextMs = "dhuhr" /\ probe.next = "dhuhr"
    /\ probe.snapshotNext = "jumuah1"

\* C36: getPreviousPrayerMs and getPreviousPrayer return the same prayer
\* name, or both nothing, for every timeline and every instant.
C36_PreviousEquivalent ==
    Located => probe.previousMs = probe.previous

\* The same comparison with the timeline parsed as the page hook parses it.
C36_PreviousOnPageTimestamps ==
    Located => probe.snapshotPrevious = probe.previous

\* C39: getNextPrayerMs and getNextPrayer, applied to the same day's legs,
\* return the same prayer name for every timeline and every instant.
C39_NextEquivalent ==
    Located => probe.nextMs = probe.next

\* Both were decided by the iqamah leg of a prayer that has no athan leg.
C39_Witness ==
    /\ Located
    /\ probe.next = "jumuah2" /\ probe.nextMs = "jumuah2"
    /\ LegOf("jumuah2").athan = Absent
    /\ LegOf("fajr").athan # Absent

(***************************************************************************)
(* Holding for one prayer while the next one starts.                        *)
(***************************************************************************)
\* The effective start of a prayer of today's timeline that has a leg.
HasAnyLeg(q) == HasAthanLeg(q) \/ HasIqamahLeg(q)
TimelineStart(q) == IF HasAthanLeg(q) THEN AthanInstant(q) ELSE IqamahInstant(q)
\* The current instant lies in [iqamah(p), iqamah(p) + holdingDuration(p)).
InsideWindow(p) ==
    /\ HasIqamahLeg(p)
    /\ IqamahInstant(p) <= currentTime
    /\ currentTime < IqamahInstant(p) + HoldingDuration(p)
\* Prayer q starts at the current instant, inside p's window and outside its own.
StartsInsideWindow(p, q) ==
    /\ p # q
    /\ HasAnyLeg(q) /\ TimelineStart(q) = currentTime
    /\ InsideWindow(p)
    /\ ~InsideWindow(q)

\* C35: a forward tick taken while the page is Holding for prayer P, to the
\* effective start instant of another prayer Q that lies inside P's window
\* and outside Q's own, leaves the page Idle, although P's window
\* iqamah(P) + holdingDuration(P) has not elapsed.
C35_IdleAtNextStart ==
    [][\A p, q \in PrayerNames :
          (/\ showPrayerNow /\ previousPrayerMs.found /\ previousPrayerMs.prayer = p
           /\ currentTime' > currentTime
           /\ StartsInsideWindow(p, q)')
              => ~showPrayerNow']_vars

\* Sunrise has started five minutes after fajr's iqamah: the page is Idle
\* inside fajr's window.
C35_Witness ==
    /\ mounted /\ ~showPrayerNow
    /\ StartsInsideWindow("fajr", "sunrise")
    /\ previousPrayerMs.found /\ previousPrayerMs.prayer = "sunrise"

(***************************************************************************)
(* The countdown is never negative.                                        *)
(***************************************************************************)
\* The legs of today's timeline, in canonical order: athan before iqamah.
LegSequence(i) ==
    (IF HasAthanLeg(PRAYER_ORDER[i]) THEN <<AthanInstant(PRAYER_ORDER[i])>> ELSE << >>)
        \o (IF HasIqamahLeg(PRAYER_ORDER[i]) THEN <<IqamahInstant(PRAYER_ORDER[i])>> ELSE << >>)
\* The present legs are in chronological canonical order, athan at or
\* before iqamah.
WellOrdered ==
    \A i, j \in 1..Len(PRAYER_ORDER) :
        i <= j =>
            \A m \in 1..Len(LegSequence(i)), n \in 1..Len(LegSequence(j)) :
                (i < j \/ m <= n) => LegSequence(i)[m] <= LegSequence(j)[n]

\* The remaining duration the effect computes, in seconds.
RemainingSeconds ==
    TimeToGoInSeconds(CountdownTarget(parsedTimes, nextPrayerKey, currentTime)[1], currentTime)
\* What the display shows for a whole number of units and one second.
CountdownsFromOneSecond ==
    {Display(HoursMinutesSeconds(TimeToGoInSeconds(k, 0) + 1)) : k \in 0..(2 * DayUnits)}

\* C37: on a timeline whose legs are well ordered, the remaining duration
\* computed on a tick is not negative, and the countdown shown is that of
\* the remaining duration plus one second: at least one second, never
\* negative, also when it was computed on an earlier tick.
C37_CountdownNeverNegative ==
    (mounted /\ WellOrdered) =>
        /\ NextHasTimes =>
              /\ RemainingSeconds >= 0
              /\ countdown = Display(HoursMinutesSeconds(RemainingSeconds + 1))
        /\ countdown # "" => countdown \in CountdownsFromOneSecond

\* The clock has reached the athan of asr, whose iqamah is still ahead:
\* nothing remains, and one second is shown.
C37_Witness ==
    /\ mounted /\ WellOrdered /\ NextHasTimes
    /\ nextPrayerKey = "asr"
    /\ HasAthanLeg(nextPrayerKey) /\ currentTime = AthanInstant(nextPrayerKey)
    /\ RemainingSeconds = 0
    /\ countdown = "00:00:01"

(***************************************************************************)
(* The expiry timer and the effect re-run of the Idle-to-Holding change.   *)
(***************************************************************************)
\* The effect has run with showPrayerNow set: the re-render that the state
\* change scheduled is done.
SettledInHolding == mounted /\ showPrayerNow /\ depShow
\* The effect has just set showPrayerNow and armed the timer; the re-render
\* is still to come.
TimerJustArmed ==
    /\ mounted /\ showPrayerNow /\ ~depShow
    /\ prayerNowTimeoutRef # NoHandle /\ activeTimeouts = {prayerNowTimeoutRef}

AfterLastRecord == (NumDays + 1) * DayUnits
NextTick == IF currentTime < MaxInstant THEN currentTime + 1 ELSE AfterLastRecord

TickForever ==
    /\ mounted
    /\ isProduction \/ ~(isSimulating /\ simulatedTimeRef # Null)
    /\ SetCurrentTime(NextTick)
    /\ UNCHANGED <<libVars, calendar, isProduction, mounted, simulatedTimeRef, isSimulating>>

\* The interval timer of the time source keeps firing: the clock keeps
\* advancing (every step of TickForever is such a step, and one is always
\* possible).
ClockAdvances == currentTime' = NextTick

SpecFairTicking ==
    InitMidnight /\ [][TickForever]_vars /\ WF_currentTime(ClockAdvances)

\* C31: with the clock ticking for ever, every Holding episode is followed
\* by Idle, whatever timeline the later ticks are evaluated against.
C31_HoldingEndsEventually == showPrayerNow ~> ~showPrayerNow

\* The same for the ticks evaluated against a timeline that has legs.
C31_HoldingEndsWhileRecordsLast ==
    (showPrayerNow /\ currentTime < NumDays * DayUnits) ~> ~showPrayerNow

====
